---- MODULE Spec2Model ----
(***************************************************************************)
(* Quantity extraction and normalisation engine of edsnlp                  *)
(* (edsnlp/pipes/misc/quantities/quantities.py).                           *)
(*                                                                         *)
(* Conventions of the model                                                *)
(*  - a string that the code splits or joins on "_" (a unit key, a label)  *)
(*    is a sequence of its "_"-separated pieces: "kg_per_m2" is            *)
(*    <<"kg", "per", "m2">>;                                               *)
(*  - the text of a number literal and the label of a number word, which   *)
(*    the code evaluates, are sequences of characters;                     *)
(*  - a float is an exact rational <<numerator, denominator>> in lowest    *)
(*    terms with a positive denominator;                                   *)
(*  - None is the string "None"; a span is [start, end) in token offsets.  *)
(***************************************************************************)
EXTENDS Integers, Sequences, FiniteSets, TLC

None == "None"

\* None where a unit key or a label is expected, and None where a quantity
\* value is expected
NoUnit == <<>>
NoValue == [kind |-> "none"]

(***************************************************************************)
(* Exact arithmetic standing for the floats of the code.                   *)
(***************************************************************************)
Abs(x) == IF x < 0 THEN -x ELSE x

RECURSIVE GCD(_, _)
GCD(a, b) == IF b = 0 THEN a ELSE GCD(b, a % b)

Rat(n, d) ==
    LET g == GCD(Abs(n), Abs(d))
        s == IF d < 0 THEN -1 ELSE 1
    IN  <<(s * n) \div g, (s * d) \div g>>

RInt(n) == <<n, 1>>
RMul(a, b) == Rat(a[1] * b[1], a[2] * b[2])
RDiv(a, b) == Rat(a[1] * b[2], a[2] * b[1])
RAdd(a, b) == Rat(a[1] * b[2] + b[1] * a[2], a[2] * b[2])
RLt(a, b) == a[1] * b[2] < b[1] * a[2]
RLe(a, b) == a[1] * b[2] <= b[1] * a[2]
ROne == <<1, 1>>

(***************************************************************************)
(* Sequence helpers.                                                       *)
(***************************************************************************)
Last(s) == s[Len(s)]
Front(s) == SubSeq(s, 1, Len(s) - 1)
Range(s) == {s[i] : i \in DOMAIN s}

RECURSIVE SumSeq(_)
SumSeq(s) == IF s = <<>> THEN 0 ELSE s[1] + SumSeq(Tail(s))

(***************************************************************************)
(* The unit table given to the matcher (units_config).  The repository's   *)
(* default table lives in patterns.py; this one keeps its shape: two       *)
(* homogeneous length units, "m" declaring the follower "cm", and two      *)
(* mass units, "kg" declaring the follower "g".                            *)
(***************************************************************************)
units_config ==
    (<<"m">>  :> [dim |-> "length", degree |-> 1, scale |-> <<100, 1>>,
                  followed_by |-> <<"cm">>]) @@
    (<<"cm">> :> [dim |-> "length", degree |-> 1, scale |-> <<1, 1>>,
                  followed_by |-> NoUnit]) @@
    (<<"kg">> :> [dim |-> "mass", degree |-> 1, scale |-> <<1000, 1>>,
                  followed_by |-> <<"g">>]) @@
    (<<"g">>  :> [dim |-> "mass", degree |-> 1, scale |-> <<1, 1>>,
                  followed_by |-> NoUnit])

\* unicodedata.normalize("NFKC", .) on the pieces of the model's alphabet:
\* the full-width letter m (written "fullwidth_m") becomes "m".
NFKCPiece(p) == IF p = "fullwidth_m" THEN "m" ELSE p

NFKC(key) == [i \in DOMAIN key |-> NFKCPiece(key[i])]

\* unit.startswith("per_")
StartsWithPer(key) == Len(key) > 1 /\ key[1] = "per"

\* a construction whose reciprocal entries keep the scale of their unit
UnitRegistry_SameScale(config) ==
    LET norm == {NFKC(k) : k \in DOMAIN config}
        base == [k \in norm |->
                    config[CHOOSE c \in DOMAIN config : NFKC(c) = k]]
        pers == {<<"per">> \o k : k \in {n \in norm : ~StartsWithPer(n)}}
    IN  [k \in norm \cup pers |->
            IF k \in pers
            THEN [dim    |-> base[Tail(k)].dim,
                  degree |-> -base[Tail(k)].degree,
                  scale  |-> base[Tail(k)].scale]
            ELSE base[k]]

\* UnitRegistry.__init__: normalised keys, then a reciprocal entry written
\* for every key that does not start with "per_".
UnitRegistry(config) ==
    LET norm == {NFKC(k) : k \in DOMAIN config}
        base == [k \in norm |->
                    config[CHOOSE c \in DOMAIN config : NFKC(c) = k]]
        gen  == {k \in norm : ~StartsWithPer(k)}
        pers == {<<"per">> \o k : k \in gen}
    IN  [k \in norm \cup pers |->
            IF k \in pers
            THEN [dim    |-> base[Tail(k)].dim,
                  degree |-> -base[Tail(k)].degree,
                  scale  |-> RDiv(ROne, base[Tail(k)].scale)]
            ELSE base[k]]

unit_registry == UnitRegistry(units_config)

\* {unicodedata.normalize("NFKC", k): v for k, v in config.items()}, for a
\* table given as the list of its items: of two keys with the same
\* normal form the later one keeps the entry
NormalizedConfig(items) ==
    [k \in {NFKC(items[i][1]) : i \in DOMAIN items} |->
        items[CHOOSE i \in DOMAIN items :
                /\ NFKC(items[i][1]) = k
                /\ \A j \in DOMAIN items : NFKC(items[j][1]) = k => j <= i][2]]

\* self.unit_followers, filled from the items of the unit table
UnitFollowers(items) ==
    [k \in {items[i][1] : i \in {j \in DOMAIN items : items[j][2].followed_by # NoUnit}} |->
        items[CHOOSE i \in DOMAIN items : items[i][1] = k][2].followed_by]

\* regex.split("(?<!per)_", unit): the key is cut at every "_" that does
\* not follow "per"; `acc` is the atom being read.
RECURSIVE SplitUnit(_, _)
SplitUnit(key, acc) ==
    IF key = <<>> THEN (IF acc = <<>> THEN <<>> ELSE <<acc>>)
    ELSE IF Head(key) = "per"
         THEN IF Len(key) = 1 THEN <<Append(acc, "per")>>
              ELSE SplitUnit(Tail(key), Append(acc, "per"))
         ELSE <<Append(acc, Head(key))>> \o SplitUnit(Tail(key), <<>>)

\* the atoms of a key all have an entry (no KeyError in parse_unit)
UnitKnown(registry, unit) ==
    \A a \in Range(SplitUnit(unit, <<>>)) : NFKC(a) \in DOMAIN registry

\* the degrees recorded for one dimension, in the order of the atoms
RECURSIVE DegreesOf(_, _, _)
DegreesOf(registry, atoms, d) ==
    IF atoms = <<>> THEN <<>>
    ELSE LET c == registry[NFKC(Head(atoms))]
         IN  (IF c.dim = d THEN <<c.degree>> ELSE <<>>)
                 \o DegreesOf(registry, Tail(atoms), d)

RECURSIVE ScaleOf(_, _)
ScaleOf(registry, atoms) ==
    IF atoms = <<>> THEN ROne
    ELSE RMul(registry[NFKC(Head(atoms))].scale, ScaleOf(registry, Tail(atoms)))

\* a parse_unit that always sums the degrees of a dimension
parse_unit_SumDegrees(registry, unit) ==
    LET atoms == SplitUnit(unit, <<>>)
        dims  == {registry[NFKC(a)].dim : a \in Range(atoms)}
        kept  == {d \in dims : SumSeq(DegreesOf(registry, atoms, d)) # 0}
    IN  [degrees |-> [d \in kept |-> SumSeq(DegreesOf(registry, atoms, d))],
         scale   |-> ScaleOf(registry, atoms)]

\* UnitRegistry.parse_unit, for a key whose atoms are known: the dimension
\* signature (a function from the kept dimensions to their degree, which is
\* what the sorted dict prints) and the scale.
parse_unit(registry, unit) ==
    LET atoms == SplitUnit(unit, <<>>)
        dims  == {registry[NFKC(a)].dim : a \in Range(atoms)}
        kept  == {d \in dims : SumSeq(DegreesOf(registry, atoms, d)) # 0}
    IN  [degrees |-> [d \in kept |->
                        LET v == DegreesOf(registry, atoms, d)
                        IN  IF Cardinality(Range(v)) > 1
                            THEN SumSeq(v) ELSE v[1]],
         scale   |-> ScaleOf(registry, atoms)]


(***************************************************************************)
(* Documents.  A document is a sequence of tokens; a token is named by its *)
(* kind.  Every candidate span of the matchers covers one token.           *)
(*   n1, n78   number literals "1", "78"        nbad  the literal "1..2"   *)
(*   w3        the number word of label "3"     wdix  one of label "dix"   *)
(*   m, kg     unit atoms                       ubad  the unit m_per_per_m *)
(*   trig      a unitless trigger term          stop  the stopword "et"    *)
(*   colon     the unitless stopword ":"        sent  a full stop          *)
(*   word      the plain word "entre"           space a whitespace token   *)
(*   nl        a line break that ends a sentence                           *)
(***************************************************************************)
AFTER_SNIPPET_LIMIT == 6
BEFORE_SNIPPET_LIMIT == 10

NumberLiteralKinds == {"n1", "n78", "nbad"}
NumberWordKinds == {"w3", "wdix"}
UnitKinds == {"m", "kg", "ubad"}
TermKinds == {"trig", "stop", "colon"}
PlainKinds == {"sent", "word", "space", "nl"}

\* Span.label_ of the candidate on a token of this kind ("" for none)
LabelOf(kind) ==
    CASE kind \in NumberLiteralKinds -> <<"number">>
      [] kind = "w3"    -> <<"3">>
      [] kind = "wdix"  -> <<"d", "i", "x">>
      [] kind = "m"     -> <<"m">>
      [] kind = "kg"    -> <<"kg">>
      [] kind = "ubad"  -> <<"m", "per", "per", "m">>
      [] kind = "trig"  -> <<"unitless", "0">>
      [] kind = "stop"  -> <<"stopword">>
      [] kind = "colon" -> <<"unitless", "stopword">>
      [] OTHER          -> <<>>

\* Span.text of a number literal, as characters
TextOf(kind) ==
    CASE kind = "n1"   -> <<"1">>
      [] kind = "n78"  -> <<"7", "8">>
      [] kind = "nbad" -> <<"1", ".", ".", "2">>
      [] OTHER         -> <<>>

\* Token.norm_
NormOf(kind) ==
    CASE kind = "stop"  -> "et"
      [] kind = "word"  -> "entre"
      [] kind = "colon" -> ":"
      [] kind = "sent"  -> "."
      [] kind \in {"space", "nl"} -> " "
      [] OTHER -> kind

IsBlankKind(kind) == kind \in {"space", "nl"}

\* Token.is_sent_end: a full stop, a sentence-ending line break, and the
\* last token of the document
IsSentEnd(toks, i) == toks[i + 1] \in {"sent", "nl"} \/ i + 1 = Len(toks)

\* doc[a:b].text.strip() == "" (an inverted slice is the empty span)
BlankText(toks, a, b) == \A i \in a .. (b - 1) : IsBlankKind(toks[i + 1])

number_label_hashes == {<<"number">>, <<"3">>, <<"d", "i", "x">>}
unitless_label_hashes == {<<"unitless", "0">>}

\* get_matches of a snippet [s, e): the candidates of the matchers in
\* document order; a sentence end covered by no other candidate is a
\* candidate of its own, flagged is_sent_end.
RECURSIVE MatchesFrom(_, _, _)
MatchesFrom(toks, i, e) ==
    IF i >= e THEN <<>>
    ELSE LET k == toks[i + 1]
             isCand == k \in NumberLiteralKinds \cup NumberWordKinds
                              \cup UnitKinds \cup TermKinds
             here == IF isCand
                     THEN <<[start |-> i, end |-> i + 1, label |-> LabelOf(k),
                             text |-> TextOf(k), is_sent_end |-> FALSE]>>
                     ELSE IF IsSentEnd(toks, i)
                     THEN <<[start |-> i, end |-> i + 1, label |-> <<>>,
                             text |-> <<>>, is_sent_end |-> TRUE]>>
                     ELSE <<>>
         IN  here \o MatchesFrom(toks, i + 1, e)

get_matches(toks, snippet) == MatchesFrom(toks, snippet[1], snippet[2])

\* the labels of the units found in the snippet
UnitLabelHashes(ms) ==
    {ms[i].label : i \in {j \in DOMAIN ms : ms[j].label \in {LabelOf(k) : k \in UnitKinds}}}

\* pseudo_mapping.get(ent.label, "." if is_sent_split else "w")
PseudoCode(ms, ent) ==
    IF ent.label \in number_label_hashes THEN "n"
    ELSE IF ent.label \in UnitLabelHashes(ms) THEN "u"
    ELSE IF ent.label = <<"unitless", "stopword">> THEN ":"
    ELSE IF ent.label = <<"stopword">> THEN ","
    ELSE IF ent.is_sent_end THEN "." ELSE "w"

\* make_pseudo_sentence: the loop over the matches from index i on, `last`
\* the end of the previous candidate, `pseudo` the codes written so far
RECURSIVE PseudoLoop(_, _, _, _, _, _)
PseudoLoop(toks, ms, i, last, pseudo, offsets) ==
    IF i > Len(ms) THEN [pseudo |-> pseudo, offsets |-> offsets, last |-> last]
    ELSE LET ent == ms[i]
             p1  == IF ent.start # last /\ ~BlankText(toks, last, ent.start)
                    THEN Append(pseudo, "w") ELSE pseudo
         IN  PseudoLoop(toks, ms, i + 1, ent.end,
                        Append(p1, PseudoCode(ms, ent)),
                        Append(offsets, Len(p1)))

make_pseudo_sentence(toks, snippet, ms) ==
    LET r == PseudoLoop(toks, ms, 1, snippet[1], <<>>, <<>>)
    IN  [pseudo  |-> IF snippet[2] # r.last /\ BlankText(toks, r.last, snippet[2])
                     THEN Append(r.pseudo, "w") ELSE r.pseudo,
         offsets |-> r.offsets]

\* pseudo[a:b] for 0-based a <= b (Python clips the slice)
PySlice(s, a, b) ==
    IF a >= b \/ a >= Len(s) THEN <<>>
    ELSE SubSeq(s, a + 1, IF b > Len(s) THEN Len(s) ELSE b)

\* re.fullmatch(r"(,n)*", s)
RECURSIVE MatchesEnumeration(_)
MatchesEnumeration(s) ==
    \/ s = <<>>
    \/ /\ Len(s) >= 2
       /\ s[1] = ","
       /\ s[2] = "n"
       /\ MatchesEnumeration(SubSeq(s, 3, Len(s)))

\* re.fullmatch(r"[,:n]*", s)
MatchesUnitlessGap(s) == \A i \in DOMAIN s : s[i] \in {",", ":", "n"}


(***************************************************************************)
(* Configuration of the matcher (QuantitiesMatcher.__init__).              *)
(***************************************************************************)
\* self.unit_followers: the units of the table that declare followed_by
unit_followers ==
    [u \in {k \in DOMAIN units_config : units_config[k].followed_by # NoUnit}
        |-> units_config[u].followed_by]

\* the measures that can be requested, as {name, unit} records
common_quantities ==
    (<<"size">>   :> [unit |-> <<"m">>]) @@
    (<<"weight">> :> [unit |-> <<"kg">>])

\* self.unitless_patterns: the trigger of the size measure.  A range has
\* "min" / "max" only where has_min / has_max says so.
unitless_patterns ==
    <<"unitless", "0">> :>
        [name   |-> <<"size">>,
         ranges |-> << [has_min |-> FALSE, min |-> 0, has_max |-> TRUE,
                        max |-> 3, unit |-> <<"m">>],
                       [has_min |-> TRUE, min |-> 1, has_max |-> TRUE,
                        max |-> 78, unit |-> <<"cm">>] >>]

\* the measures of a configuration: quantities="all" registers every
\* common quantity, quantities="size" the size only
RequestedMeasures(quantities) ==
    IF quantities = "all" THEN DOMAIN common_quantities ELSE {<<"size">>}

\* self.measure_names: dimension signature -> measure name
measure_names(quantities) ==
    LET sigs == {parse_unit(unit_registry, common_quantities[n].unit).degrees :
                    n \in RequestedMeasures(quantities)}
    IN  [sg \in sigs |->
            CHOOSE n \in RequestedMeasures(quantities) :
                parse_unit(unit_registry, common_quantities[n].unit).degrees = sg]

(***************************************************************************)
(* The value of a number candidate (extract_quantities, value detection).  *)
(***************************************************************************)
Digits == {"0", "1", "2", "3", "4", "5", "6", "7", "8", "9"}

DigitValue(c) ==
    CASE c = "0" -> 0 [] c = "1" -> 1 [] c = "2" -> 2 [] c = "3" -> 3
      [] c = "4" -> 4 [] c = "5" -> 5 [] c = "6" -> 6 [] c = "7" -> 7
      [] c = "8" -> 8 [] c = "9" -> 9

RECURSIVE IntOf(_, _)
IntOf(chars, acc) ==
    IF chars = <<>> THEN acc
    ELSE IntOf(Tail(chars), 10 * acc + DigitValue(Head(chars)))

RECURSIVE Pow10(_)
Pow10(n) == IF n = 0 THEN 1 ELSE 10 * Pow10(n - 1)

\* str.replace(" ", "").replace(",", ".")
RECURSIVE ReplaceSeparators(_)
ReplaceSeparators(chars) ==
    IF chars = <<>> THEN <<>>
    ELSE LET c == Head(chars)
         IN  (IF c = " " THEN <<>> ELSE IF c = "," THEN <<".">> ELSE <<c>>)
                 \o ReplaceSeparators(Tail(chars))

\* str.lstrip("0")
RECURSIVE LStripZeros(_)
LStripZeros(chars) ==
    IF chars # <<>> /\ Head(chars) = "0" THEN LStripZeros(Tail(chars)) ELSE chars

\* Python's eval on the strings of the model: a decimal literal gives its
\* value, an identifier that names nothing raises NameError, anything else
\* (the empty string, "1..2", an integer with a leading zero) SyntaxError.
PyEval(chars) ==
    LET dots   == {i \in DOMAIN chars : chars[i] = "."}
        allDig == \A i \in DOMAIN chars : chars[i] \in Digits
        isName == /\ chars # <<>>
                  /\ \A i \in DOMAIN chars : chars[i] \notin Digits \cup {".", ",", " "}
    IN  IF chars = <<>> THEN [ok |-> FALSE, exc |-> "SyntaxError"]
        ELSE IF allDig
        THEN IF Len(chars) > 1 /\ chars[1] = "0" /\ IntOf(chars, 0) # 0
             THEN [ok |-> FALSE, exc |-> "SyntaxError"]
             ELSE [ok |-> TRUE, value |-> RInt(IntOf(chars, 0))]
        ELSE IF /\ Cardinality(dots) = 1
                /\ Len(chars) > 1
                /\ \A i \in DOMAIN chars \ dots : chars[i] \in Digits
        THEN LET d == CHOOSE i \in dots : TRUE
                 whole == SubSeq(chars, 1, d - 1)
                 frac  == SubSeq(chars, d + 1, Len(chars))
             IN  IF Len(whole) > 1 /\ whole[1] = "0"
                 THEN [ok |-> FALSE, exc |-> "SyntaxError"]
                 ELSE [ok |-> TRUE,
                       value |-> RAdd(RInt(IntOf(whole, 0)),
                                      Rat(IntOf(frac, 0), Pow10(Len(frac))))]
        ELSE IF isName THEN [ok |-> FALSE, exc |-> "NameError"]
        ELSE [ok |-> FALSE, exc |-> "SyntaxError"]

\* the try block of the loop: the literal of a "number" candidate, the
\* label of any other one
EvalNumber(number) ==
    IF number.label = <<"number">>
    THEN LET number_text == LStripZeros(ReplaceSeparators(number.text))
         IN  PyEval(IF number_text = <<>> THEN <<"0">> ELSE number_text)
    ELSE PyEval(number.label)


(***************************************************************************)
(* Linking a number to its unit (extract_quantities, loop body).  Matches  *)
(* are indexed from 1; the index 0 stands for None.                        *)
(***************************************************************************)
\* next(... for j, ent in get_matches_after(i) if ent.label in labels):
\* the scan of matches[i + 1:] from index j on
RECURSIVE get_matches_after(_, _, _, _)
get_matches_after(ms, i, j, labels) ==
    IF j > Len(ms) THEN 0
    ELSE IF ~ms[j].is_sent_end /\ ms[j].start > ms[i].end + AFTER_SNIPPET_LIMIT
    THEN 0
    ELSE IF ms[j].label \in labels THEN j
    ELSE get_matches_after(ms, i, j + 1, labels)

\* next(... for j, ent in get_matches_before(i) if ent.label in labels):
\* the scan of matches[i::-1] from index j down
RECURSIVE get_matches_before(_, _, _, _)
get_matches_before(ms, i, j, labels) ==
    IF j < 1 THEN 0
    ELSE IF ~ms[j].is_sent_end /\ ms[j].end < ms[i].start - BEFORE_SNIPPET_LIMIT
    THEN 0
    ELSE IF ms[j].label \in labels THEN j
    ELSE get_matches_before(ms, i, j - 1, labels)

\* the tables of the document (doc.spans["tables"] and to_pd_table): none,
\* one table of a single row, or one table of an empty row, a row of all
\* tokens but the last, and a row of the last token.  A cell is a span or
\* NoCell (None).
NoCell == [none |-> TRUE]

CellsOf(a, b) ==
    [i \in 1 .. (b - a) |-> [none |-> FALSE, start |-> a + i - 1, end |-> a + i]]

TablesOf(toks, tables) ==
    LET n == Len(toks)
    IN  IF tables = "onerow"
        THEN << [start |-> 0, end |-> n, rows |-> << CellsOf(0, n) >>] >>
        ELSE IF tables = "tworows"
        THEN << [start |-> 0, end |-> n,
                 rows  |-> << <<NoCell>>, CellsOf(0, n - 1), CellsOf(n - 1, n) >>] >>
        ELSE <<>>

\* the closest unit after the number, kept whatever separates them
AdjacentUnit_AnyGap(ms, ps, i) ==
    LET unit_idx == get_matches_after(ms, i, i + 1, UnitLabelHashes(ms))
    IN  [unit_idx  |-> unit_idx,
         unit_norm |-> IF unit_idx = 0 THEN NoUnit ELSE ms[unit_idx].label]

\* Strategy 1: the closest unit after the number, kept if only "(,n)*"
\* separates them in the pseudo sentence
AdjacentUnit(ms, ps, i) ==
    LET unit_idx == get_matches_after(ms, i, i + 1, UnitLabelHashes(ms))
    IN  [unit_idx  |-> unit_idx,
         unit_norm |->
            IF unit_idx = 0 THEN NoUnit
            ELSE IF MatchesEnumeration(
                        PySlice(ps.pseudo, ps.offsets[i] + 1, ps.offsets[unit_idx]))
            THEN ms[unit_idx].label ELSE NoUnit]

\* one row of a table, with the unit of the backward search taken
\* wherever it stands
TableRow_AnyBackward(ms, i, row, u) ==
    LET cells == {c \in DOMAIN row : ~row[c].none}
    IN  IF cells = {} THEN u
        ELSE
        LET start_line == row[CHOOSE c \in cells : \A d \in cells : c <= d].start
            end_line   == row[CHOOSE c \in cells : \A d \in cells : d <= c].end
            within(x)  == x.start >= start_line /\ x.end <= end_line
            b_unit_idx == get_matches_before(ms, i, i, UnitLabelHashes(ms))
        IN  IF ~within(ms[i]) THEN u
            ELSE IF u.unit_idx # 0 /\ within(ms[u.unit_idx])
            THEN [unit_idx |-> u.unit_idx, unit_norm |-> ms[u.unit_idx].label]
            ELSE IF b_unit_idx # 0
            THEN [unit_idx |-> b_unit_idx, unit_norm |-> ms[b_unit_idx].label]
            ELSE u

\* Strategy 2, one row of a table: `u` is (unit_idx, unit_norm) so far
TableRow(ms, i, row, u) ==
    LET cells == {c \in DOMAIN row : ~row[c].none}
    IN  IF cells = {} THEN u
        ELSE
        LET start_line == row[CHOOSE c \in cells : \A d \in cells : c <= d].start
            end_line   == row[CHOOSE c \in cells : \A d \in cells : d <= c].end
            within(x)  == x.start >= start_line /\ x.end <= end_line
            b_unit_idx == get_matches_before(ms, i, i, UnitLabelHashes(ms))
        IN  IF ~within(ms[i]) THEN u
            ELSE IF u.unit_idx # 0 /\ within(ms[u.unit_idx])
            THEN [unit_idx |-> u.unit_idx, unit_norm |-> ms[u.unit_idx].label]
            ELSE IF b_unit_idx # 0 /\ within(ms[b_unit_idx])
            THEN [unit_idx |-> b_unit_idx, unit_norm |-> ms[b_unit_idx].label]
            ELSE u

RECURSIVE TableRows(_, _, _, _)
TableRows(ms, i, rows, u) ==
    IF rows = <<>> THEN u
    ELSE TableRows(ms, i, Tail(rows), TableRow(ms, i, Head(rows), u))

\* Strategy 2: every table that contains the number, row by row
RECURSIVE TableUnit(_, _, _, _)
TableUnit(ms, i, tabs, u) ==
    IF tabs = <<>> THEN u
    ELSE LET table == Head(tabs)
         IN  TableUnit(ms, i, Tail(tabs),
                IF ms[i].start >= table.start /\ ms[i].end <= table.end
                THEN TableRows(ms, i, table.rows, u) ELSE u)

\* Strategy 3: the follower of the unit matched just before the number
FollowerUnit(ms, i, matched_units) ==
    IF /\ (i - 1) \in matched_units
       /\ ms[i - 1].end = ms[i].start
       /\ ms[i - 1].label \in DOMAIN unit_followers
    THEN unit_followers[ms[i - 1].label] ELSE NoUnit

\* the first range with min <= value <= max
RECURSIVE FirstRange_MaxIncluded(_, _)
FirstRange_MaxIncluded(ranges, value) ==
    IF ranges = <<>> THEN NoUnit
    ELSE LET scope == Head(ranges)
         IN  IF /\ (~scope.has_min \/ RLe(RInt(scope.min), value))
                /\ (~scope.has_max \/ RLe(value, RInt(scope.max)))
             THEN scope.unit
             ELSE FirstRange_MaxIncluded(Tail(ranges), value)

\* next(scope["unit"] for scope in ranges if ...), None on StopIteration
RECURSIVE FirstRange(_, _)
FirstRange(ranges, value) ==
    IF ranges = <<>> THEN NoUnit
    ELSE LET scope == Head(ranges)
         IN  IF /\ (~scope.has_min \/ RLe(RInt(scope.min), value))
                /\ (~scope.has_max \/ RLt(value, RInt(scope.max)))
             THEN scope.unit
             ELSE FirstRange(Tail(ranges), value)

\* Strategy 4: the closest unitless trigger before the number
UnitlessUnit(ms, ps, i, value) ==
    LET unitless_idx == get_matches_before(ms, i, i, unitless_label_hashes)
    IN  IF unitless_idx = 0 THEN NoUnit
        ELSE IF MatchesUnitlessGap(
                    PySlice(ps.pseudo, ps.offsets[unitless_idx] + 1, ps.offsets[i]))
        THEN FirstRange(unitless_patterns[ms[unitless_idx].label].ranges, value)
        ELSE NoUnit

\* a result of a strategy, with the strategy that gave the unit
WithBy(unit_idx, unit_norm, by) ==
    [unit_idx |-> unit_idx, unit_norm |-> unit_norm,
     by |-> IF unit_norm = NoUnit THEN None ELSE by]

\* the blocks of the loop body that follow the first strategy; each one
\* runs only if unit_norm is still None, `u` being (unit_idx, unit_norm, by)
LinkAdjacent(ms, ps, i) ==
    WithBy(AdjacentUnit(ms, ps, i).unit_idx, AdjacentUnit(ms, ps, i).unit_norm,
           "adjacent")

TableResult(t) == WithBy(t.unit_idx, t.unit_norm, "table")

LinkTable(toks, ms, i, tables, u) ==
    IF u.unit_norm = NoUnit
    THEN TableResult(TableUnit(ms, i, TablesOf(toks, tables),
                        [unit_idx |-> u.unit_idx, unit_norm |-> u.unit_norm]))
    ELSE u

LinkFollower(ms, i, matched_units, u) ==
    IF u.unit_norm = NoUnit
    THEN WithBy(u.unit_idx, FollowerUnit(ms, i, matched_units), "follower")
    ELSE u

LinkUnitless(ms, ps, i, value, u) ==
    IF u.unit_norm = NoUnit
    THEN WithBy(u.unit_idx, UnitlessUnit(ms, ps, i, value), "unitless")
    ELSE u

\* the strategies with the follower inference tried before the tables
LinkUnit_FollowerFirst(toks, ms, ps, i, value, matched_units, tables) ==
    LinkUnitless(ms, ps, i, value,
        LinkTable(toks, ms, i, tables,
            LinkFollower(ms, i, matched_units,
                LinkAdjacent(ms, ps, i))))

\* the four strategies in the order of the code
LinkUnit(toks, ms, ps, i, value, matched_units, tables) ==
    LinkUnitless(ms, ps, i, value,
        LinkFollower(ms, i, matched_units,
            LinkTable(toks, ms, i, tables,
                LinkAdjacent(ms, ps, i))))

\* the span of the quantity: the number and its unit when only blank text
\* separates them (doc[a:b] with b < a is the empty span at a)
QuantitySpan(toks, ms, i, unit_idx) ==
    LET number == ms[i]
    IN  IF /\ unit_idx # 0
           /\ number.start <= ms[unit_idx].end
           /\ BlankText(toks, number.end, ms[unit_idx].start)
        THEN [start |-> number.start, end |-> ms[unit_idx].end]
        ELSE IF /\ unit_idx # 0
                /\ ms[unit_idx].start <= number.end
                /\ BlankText(toks, ms[unit_idx].end, number.start)
        THEN [start |-> ms[unit_idx].start, end |-> number.end]
        ELSE [start |-> number.start, end |-> number.end]

\* SimpleQuantity(value, unit, registry)
SimpleQuantity(value, unit) == [kind |-> "simple", value |-> value, unit |-> unit]

\* the end of the loop body without the test of the requested measures
MakeQuantity_NoDismiss(toks, ms, i, value, link, all_q, names) ==
    IF link.unit_norm = NoUnit
    THEN [outcome |-> "no_unit", by |-> None]
    ELSE IF ~UnitKnown(unit_registry, link.unit_norm)
    THEN [outcome |-> "unknown_unit", by |-> link.by]
    ELSE [outcome  |-> "quantity",
          by       |-> link.by,
          unit_idx |-> link.unit_idx,
          ent      |-> [start |-> QuantitySpan(toks, ms, i, link.unit_idx).start,
                        end   |-> QuantitySpan(toks, ms, i, link.unit_idx).end,
                        label |-> link.unit_norm,
                        value |-> SimpleQuantity(value, link.unit_norm)]]

\* the end of the loop body with the label of the capture-all mode in
\* every mode
MakeQuantity_UnitLabel(toks, ms, i, value, link, all_q, names) ==
    IF link.unit_norm = NoUnit
    THEN [outcome |-> "no_unit", by |-> None]
    ELSE IF ~UnitKnown(unit_registry, link.unit_norm)
    THEN [outcome |-> "unknown_unit", by |-> link.by]
    ELSE IF parse_unit(unit_registry, link.unit_norm).degrees \notin DOMAIN names
            /\ ~all_q
    THEN [outcome |-> "not_requested", by |-> link.by]
    ELSE [outcome  |-> "quantity",
          by       |-> link.by,
          unit_idx |-> link.unit_idx,
          ent      |-> [start |-> QuantitySpan(toks, ms, i, link.unit_idx).start,
                        end   |-> QuantitySpan(toks, ms, i, link.unit_idx).end,
                        label |-> link.unit_norm,
                        value |-> SimpleQuantity(value, link.unit_norm)]]

\* The end of the loop body, once the unit is linked: the final entity,
\* the dimension of the unit, the requested measures.
MakeQuantity(toks, ms, i, value, link, all_q, names) ==
    IF link.unit_norm = NoUnit
    THEN [outcome |-> "no_unit", by |-> None]
    ELSE IF ~UnitKnown(unit_registry, link.unit_norm)
    THEN [outcome |-> "unknown_unit", by |-> link.by]
    ELSE IF parse_unit(unit_registry, link.unit_norm).degrees \notin DOMAIN names
            /\ ~all_q
    THEN [outcome |-> "not_requested", by |-> link.by]
    ELSE [outcome  |-> "quantity",
          by       |-> link.by,
          unit_idx |-> link.unit_idx,
          ent      |-> [start |-> QuantitySpan(toks, ms, i, link.unit_idx).start,
                        end   |-> QuantitySpan(toks, ms, i, link.unit_idx).end,
                        label |-> IF all_q THEN link.unit_norm
                                  ELSE names[parse_unit(unit_registry,
                                                        link.unit_norm).degrees],
                        value |-> SimpleQuantity(value, link.unit_norm)]]

\* The loop body after the value detection: `ev` is the result of the try
\* block, which catches ValueError and SyntaxError only.
LinkNumber(toks, ms, ps, i, matched_units, cfg, ev) ==
    IF ~ev.ok
    THEN IF ev.exc \in {"ValueError", "SyntaxError"}
         THEN [outcome |-> "skipped", by |-> None]
         ELSE [outcome |-> "raised", exc |-> ev.exc, by |-> None]
    ELSE MakeQuantity(toks, ms, i, ev.value,
            LinkUnit(toks, ms, ps, i, ev.value, matched_units, cfg.tables),
            cfg.quantities = "all", measure_names(cfg.quantities))

\* One iteration of the loop over the matches, for a candidate that passes
\* the number test: what it does to the three collections, or the
\* exception that leaves the function.
ProcessNumber(toks, ms, ps, i, matched_units, cfg) ==
    LinkNumber(toks, ms, ps, i, matched_units, cfg, EvalNumber(ms[i]))

(***************************************************************************)
(* The value model (SimpleQuantity, RangeQuantity).  A result is           *)
(* [ok |-> TRUE, value |-> v] or [ok |-> FALSE, exc |-> the exception].    *)
(* `depth` is 0 for a scalar and, for a range, one more than the depth of  *)
(* its deepest bound: a range of two floats has depth 1.                   *)
(***************************************************************************)
RangeQuantity(from_value, to_value, unit, depth) ==
    [kind |-> "range", value |-> <<from_value, to_value>>, unit |-> unit,
     depth |-> depth]

DepthOf(q) == IF q.kind = "simple" THEN 0 ELSE q.depth

\* a conversion with the ratio the wrong way round: target over source
convert_to_Inverted(q, other_unit) ==
    LET self  == parse_unit(unit_registry, q.unit)
        other == parse_unit(unit_registry, other_unit)
        ratio == RDiv(other.scale, self.scale)
    IN  IF ~UnitKnown(unit_registry, q.unit) \/ ~UnitKnown(unit_registry, other_unit)
        THEN [ok |-> FALSE, exc |-> "KeyError"]
        ELSE IF self.degrees # other.degrees
        THEN [ok |-> FALSE, exc |-> "AttributeError"]
        ELSE IF q.kind = "simple"
        THEN [ok |-> TRUE, value |-> RMul(q.value, ratio)]
        ELSE IF q.depth > 1 THEN [ok |-> FALSE, exc |-> "TypeError"]
        ELSE [ok |-> TRUE,
              value |-> <<RMul(q.value[1], ratio), RMul(q.value[2], ratio)>>]

\* a conversion that multiplies by the scale of the source unit alone
convert_to_SourceScale(q, other_unit) ==
    LET self  == parse_unit(unit_registry, q.unit)
        other == parse_unit(unit_registry, other_unit)
    IN  IF ~UnitKnown(unit_registry, q.unit) \/ ~UnitKnown(unit_registry, other_unit)
        THEN [ok |-> FALSE, exc |-> "KeyError"]
        ELSE IF self.degrees # other.degrees
        THEN [ok |-> FALSE, exc |-> "AttributeError"]
        ELSE IF q.kind = "simple"
        THEN [ok |-> TRUE, value |-> RMul(q.value, self.scale)]
        ELSE IF q.depth > 1 THEN [ok |-> FALSE, exc |-> "TypeError"]
        ELSE [ok |-> TRUE,
              value |-> <<RMul(q.value[1], self.scale), RMul(q.value[2], self.scale)>>]

\* SimpleQuantity.convert_to and RangeQuantity.convert_to
convert_to(q, other_unit) ==
    LET self  == parse_unit(unit_registry, q.unit)
        other == parse_unit(unit_registry, other_unit)
        ratio == RDiv(self.scale, other.scale)
    IN  IF ~UnitKnown(unit_registry, q.unit) \/ ~UnitKnown(unit_registry, other_unit)
        THEN [ok |-> FALSE, exc |-> "KeyError"]
        ELSE IF self.degrees # other.degrees
        THEN [ok |-> FALSE, exc |-> "AttributeError"]
        ELSE IF ratio = ROne THEN [ok |-> TRUE, value |-> q.value]
        ELSE IF q.kind = "simple"
        THEN [ok |-> TRUE, value |-> RMul(q.value, ratio)]
        ELSE IF q.depth > 1 THEN [ok |-> FALSE, exc |-> "TypeError"]
        ELSE [ok |-> TRUE,
              value |-> <<RMul(q.value[1], ratio), RMul(q.value[2], ratio)>>]

\* an addition that takes the right value as it is, without conversion
Add_Unconverted(self, other) ==
    IF self.kind # "simple" \/ other.kind # "simple"
    THEN [ok |-> FALSE, exc |-> "TypeError"]
    ELSE [ok |-> TRUE,
          value |-> SimpleQuantity(RAdd(self.value, other.value), self.unit)]

\* last._.value + ent._.value: SimpleQuantity.__add__ when the left operand
\* is a scalar; a range has no __add__, and float + tuple is a TypeError
Add(self, other) ==
    LET conv == convert_to(other, self.unit)
    IN  IF self.kind # "simple" THEN [ok |-> FALSE, exc |-> "TypeError"]
        ELSE IF other.unit = self.unit
        THEN IF other.kind # "simple" THEN [ok |-> FALSE, exc |-> "TypeError"]
             ELSE [ok |-> TRUE,
                   value |-> SimpleQuantity(RAdd(self.value, other.value), self.unit)]
        ELSE IF ~conv.ok THEN conv
        ELSE IF other.kind # "simple" THEN [ok |-> FALSE, exc |-> "TypeError"]
        ELSE [ok |-> TRUE,
              value |-> SimpleQuantity(RAdd(self.value, conv.value), self.unit)]

\* RangeQuantity.from_quantities(a, b)
from_quantities(a, b) ==
    LET conv == convert_to(b, a.unit)
    IN  IF ~conv.ok THEN conv
        ELSE [ok |-> TRUE,
              value |-> RangeQuantity(a.value, conv.value, a.unit,
                            1 + (IF DepthOf(a) > DepthOf(b)
                                 THEN DepthOf(a) ELSE DepthOf(b)))]

\* (part.value for part in other): the value of a scalar, the two bounds
\* of a range
PartValues(q) == IF q.kind = "simple" THEN <<q.value>> ELSE q.value

\* min and max of one or two floats
MinOf(vs) == IF Len(vs) = 1 \/ RLe(vs[1], vs[2]) THEN vs[1] ELSE vs[2]
MaxOf(vs) == IF Len(vs) = 1 \/ RLe(vs[2], vs[1]) THEN vs[1] ELSE vs[2]

\* the left side of a comparison: self.convert_to(other.unit) for a scalar,
\* max(self.convert_to(other.unit)) for a range
LeftBound(self, converted) ==
    IF self.kind = "simple" THEN converted ELSE MaxOf(converted)

\* SimpleQuantity.__lt__ and RangeQuantity.__lt__; a bound that is itself a
\* pair cannot be compared with a float
Lt(self, other) ==
    IF ~convert_to(self, other.unit).ok THEN convert_to(self, other.unit)
    ELSE IF DepthOf(self) > 1 \/ DepthOf(other) > 1
    THEN [ok |-> FALSE, exc |-> "TypeError"]
    ELSE [ok |-> TRUE,
          value |-> RLt(LeftBound(self, convert_to(self, other.unit).value),
                        MinOf(PartValues(other)))]

\* SimpleQuantity.__le__ (against the min of the right side) and
\* RangeQuantity.__le__ (against its max)
Le(self, other) ==
    IF ~convert_to(self, other.unit).ok THEN convert_to(self, other.unit)
    ELSE IF DepthOf(self) > 1 \/ DepthOf(other) > 1
    THEN [ok |-> FALSE, exc |-> "TypeError"]
    ELSE [ok |-> TRUE,
          value |-> RLe(LeftBound(self, convert_to(self, other.unit).value),
                        IF self.kind = "simple"
                        THEN MinOf(PartValues(other))
                        ELSE MaxOf(PartValues(other)))]

\* UnitRegistry.parse_unit as a call: the KeyError of an unknown atom, or
\* the pair (signature, scale)
TryParseUnit(registry, unit) ==
    IF ~UnitKnown(registry, unit) THEN [ok |-> FALSE, exc |-> "KeyError"]
    ELSE [ok |-> TRUE, value |-> parse_unit(registry, unit)]

(***************************************************************************)
(* The merge passes, one iteration of their loop each.                     *)
(***************************************************************************)
\* the loop body with the merged span keeping the label of the left span
MergeAdjacentBody_LeftLabel(mrg, ent) ==
    LET last == Last(mrg)
        sum  == Add(last.value, ent.value)
    IN  IF last.end = ent.start /\ last.value.unit # ent.value.unit /\ sum.ok
        THEN [ok |-> TRUE,
              merged |-> Append(Front(mrg),
                           [start |-> last.start, end |-> ent.end,
                            label |-> last.label, value |-> sum.value])]
        ELSE [ok |-> TRUE, merged |-> Append(mrg, ent)]

\* merge_adjacent_quantities, loop body: `ent` against the last merged span
MergeAdjacentBody(mrg, ent) ==
    LET last == Last(mrg)
        sum  == Add(last.value, ent.value)
    IN  IF last.end = ent.start /\ last.value.unit # ent.value.unit
        THEN IF sum.ok
             THEN [ok |-> TRUE,
                   merged |-> Append(Front(mrg),
                                [start |-> last.start, end |-> ent.end,
                                 label |-> ent.label, value |-> sum.value])]
             ELSE IF sum.exc \in {"AttributeError", "TypeError"}
             THEN [ok |-> TRUE, merged |-> Append(mrg, ent)]
             ELSE [ok |-> FALSE, exc |-> sum.exc]
        ELSE [ok |-> TRUE, merged |-> Append(mrg, ent)]

\* get_text(doc[a:b], "NORM", True): the norms of the tokens of the slice
get_text(toks, a, b) == [i \in 1 .. (b - a) |-> NormOf(toks[a + i])]

\* the patterns whose to-marker matches, whatever their from-marker
RECURSIVE MatchingPatterns_AnyFrom(_, _, _)
MatchingPatterns_AnyFrom(patterns, from_text, to_text) ==
    IF patterns = <<>> THEN <<>>
    ELSE (IF <<Head(patterns)[2]>> = to_text THEN <<Head(patterns)>> ELSE <<>>)
            \o MatchingPatterns_AnyFrom(Tail(patterns), from_text, to_text)

\* the (from, to) patterns that match, in registration order
RECURSIVE MatchingPatterns(_, _, _)
MatchingPatterns(patterns, from_text, to_text) ==
    IF patterns = <<>> THEN <<>>
    ELSE LET a == Head(patterns)[1]
             b == Head(patterns)[2]
         IN  (IF <<b>> = to_text /\ (a = None \/ a = from_text)
              THEN <<Head(patterns)>> ELSE <<>>)
                 \o MatchingPatterns(Tail(patterns), from_text, to_text)

\* the list comprehension over self.range_patterns as it runs: "for a, b
\* in" raises ValueError on a tuple that has not two elements
TryMatchingPatterns(patterns, from_text, to_text) ==
    IF \E i \in DOMAIN patterns : Len(patterns[i]) # 2
    THEN [ok |-> FALSE, exc |-> "ValueError"]
    ELSE [ok |-> TRUE, value |-> MatchingPatterns(patterns, from_text, to_text)]

\* merge_quantities_in_ranges, loop body
MergeRangesBody(toks, patterns, mrg, ent) ==
    LET last      == Last(mrg)
        from_text == IF last.start > 0 THEN NormOf(toks[last.start]) ELSE None
        to_text   == get_text(toks, last.end, ent.start)
        matching  == MatchingPatterns(patterns, from_text, to_text)
        rng       == from_quantities(last.value, ent.value)
    IN  IF matching # <<>>
        THEN IF rng.ok
             THEN [ok |-> TRUE,
                   merged |-> Append(Front(mrg),
                                [start |-> IF matching[1][1] = None
                                           THEN last.start ELSE last.start - 1,
                                 end   |-> ent.end,
                                 label |-> ent.label,
                                 value |-> rng.value])]
             ELSE IF rng.exc \in {"AttributeError", "TypeError"}
             THEN [ok |-> TRUE, merged |-> Append(mrg, ent)]
             ELSE [ok |-> FALSE, exc |-> rng.exc]
        ELSE [ok |-> TRUE, merged |-> Append(mrg, ent)]

\* the loop of a merge pass run to its end: `r` is the result of the
\* iterations so far, an exception leaves the loop
RECURSIVE MergeAdjacentLoop(_, _)
MergeAdjacentLoop(r, rest) ==
    IF ~r.ok \/ rest = <<>> THEN r
    ELSE MergeAdjacentLoop(MergeAdjacentBody(r.merged, Head(rest)), Tail(rest))

\* merge_adjacent_quantities(quantities), as a function of its argument
merge_adjacent_quantities(qs) ==
    IF qs = <<>> THEN [ok |-> TRUE, merged |-> <<>>]
    ELSE MergeAdjacentLoop([ok |-> TRUE, merged |-> <<Head(qs)>>], Tail(qs))

RECURSIVE MergeRangesLoop(_, _, _, _)
MergeRangesLoop(toks, patterns, r, rest) ==
    IF ~r.ok \/ rest = <<>> THEN r
    ELSE MergeRangesLoop(toks, patterns,
            MergeRangesBody(toks, patterns, r.merged, Head(rest)), Tail(rest))

\* merge_quantities_in_ranges(quantities), as a function of its argument
merge_quantities_in_ranges(toks, cfg, qs) ==
    IF ~cfg.extract_ranges \/ cfg.range_patterns = <<>> \/ qs = <<>>
    THEN [ok |-> TRUE, merged |-> qs]
    ELSE MergeRangesLoop(toks, cfg.range_patterns,
            [ok |-> TRUE, merged |-> <<Head(qs)>>], Tail(qs))


(***************************************************************************)
(* Spans of interest (span_getter) and the aligner.                        *)
(***************************************************************************)
\* Span.sent: from the start of the sentence of the first token of the
\* span to the end of the sentence of its last token
SentStart(toks, i) ==
    LET ends == {j \in 0 .. (i - 1) : IsSentEnd(toks, j)}
    IN  IF ends = {} THEN 0 ELSE 1 + CHOOSE j \in ends : \A k \in ends : k <= j

SentEnd(toks, i) ==
    1 + CHOOSE j \in i .. (Len(toks) - 1) :
            IsSentEnd(toks, j) /\ \A k \in i .. (j - 1) : ~IsSentEnd(toks, k)

Sent(toks, span) == <<SentStart(toks, span.start), SentEnd(toks, span.end - 1)>>

\* get_spans(doc, span_getter): the spans of interest, in the order of the
\* span group.  "ordered" gives the first and the last token, in that
\* order, "reversed" the same two spans the other way round, "whole" one
\* span over the document.
get_spans(toks, span_getter) ==
    LET n     == Len(toks)
        first == [start |-> 0, end |-> 1, label |-> <<"size">>]
        final == [start |-> n - 1, end |-> n, label |-> <<"size">>]
    IN  CASE span_getter = "ordered"  -> IF n = 1 THEN <<first>> ELSE <<first, final>>
          [] span_getter = "reversed" -> IF n = 1 THEN <<first>> ELSE <<final, first>>
          [] span_getter = "whole"    -> << [start |-> 0, end |-> n,
                                            label |-> <<"size">>] >>
          [] OTHER -> <<>>

\* dict.fromkeys(...): the first occurrence of each element, in order
RECURSIVE Dedup(_, _)
Dedup(s, seen) ==
    IF s = <<>> THEN <<>>
    ELSE IF Head(s) \in seen THEN Dedup(Tail(s), seen)
    ELSE <<Head(s)>> \o Dedup(Tail(s), seen \cup {Head(s)})

\* the snippets of __call__
Snippets(toks, span_getter) ==
    IF span_getter = None THEN << <<0, Len(toks)>> >>
    ELSE LET existing == get_spans(toks, span_getter)
         IN  Dedup([i \in DOMAIN existing |-> Sent(toks, existing[i])], {})

Overlap(a, b) ==
    LET lo == IF a.start > b.start THEN a.start ELSE b.start
        hi == IF a.end < b.end THEN a.end ELSE b.end
    IN  IF hi > lo THEN hi - lo ELSE 0

\* insertion of x into a list kept by decreasing overlap with `target`,
\* then by increasing start
RECURSIVE InsertByOverlap(_, _, _)
InsertByOverlap(sorted, x, target) ==
    IF sorted = <<>> THEN <<x>>
    ELSE LET h == Head(sorted)
         IN  IF \/ Overlap(x, target) > Overlap(h, target)
                \/ Overlap(x, target) = Overlap(h, target) /\ x.start < h.start
             THEN <<x>> \o sorted
             ELSE <<h>> \o InsertByOverlap(Tail(sorted), x, target)

RECURSIVE SortByOverlap(_, _)
SortByOverlap(s, target) ==
    IF s = <<>> THEN <<>>
    ELSE InsertByOverlap(SortByOverlap(Tail(s), target), Head(s), target)

\* align_spans(source, target, sort_by_overlap): for each target span, the
\* source spans that overlap it
align_spans(source, target, sort_by_overlap) ==
    [t \in DOMAIN target |->
        LET hits == SelectSeq(source, LAMBDA q : Overlap(q, target[t]) > 0)
        IN  IF sort_by_overlap THEN SortByOverlap(hits, target[t]) ELSE hits]

RECURSIVE Flatten(_)
Flatten(ss) == IF ss = <<>> THEN <<>> ELSE Head(ss) \o Flatten(Tail(ss))

\* span_quantities[0]._.get(span.label_): the value is stored under the
\* label of the quantity
ValueUnder(q, label) == IF q.label = label THEN q.value ELSE NoValue

\* intersect mode without the removal of the duplicates
merge_with_existing_KeepAll(extracted_spans, existing, merge_mode) ==
    Flatten(align_spans(extracted_spans, existing, FALSE))

\* merge_with_existing
merge_with_existing(extracted_spans, existing, merge_mode) ==
    LET plain  == align_spans(extracted_spans, existing, FALSE)
        sorted == align_spans(extracted_spans, existing, TRUE)
        hit    == SelectSeq([t \in DOMAIN existing |-> t], LAMBDA t : sorted[t] # <<>>)
    IN  IF merge_mode = "align"
        THEN [k \in DOMAIN hit |->
                [start |-> existing[hit[k]].start,
                 end   |-> existing[hit[k]].end,
                 label |-> existing[hit[k]].label,
                 value |-> ValueUnder(sorted[hit[k]][1], existing[hit[k]].label)]]
        ELSE IF merge_mode = "intersect"
        THEN Dedup(Flatten(plain), {})
        ELSE extracted_spans


(***************************************************************************)
(* The state of one call of the matcher on one document.                   *)
(***************************************************************************)
VARIABLES
    doc,                     \* the tokens of the document
    config,                  \* the options of the matcher
    pc,                      \* where __call__ stands
    snippets,                \* the snippets still to extract from
    matches,                 \* extract_quantities: matches
    pseudo,                  \* extract_quantities: (pseudo, offsets)
    number_idx,              \* extract_quantities: next match of the loop
    quantities,              \* extract_quantities: quantities
    matched_unit_indices,    \* extract_quantities: matched_unit_indices
    matched_number_indices,  \* extract_quantities: matched_number_indices
    unmatched,               \* the unmatched list of the last return
    linked,                  \* what the last iteration of the loop did
    extracted,               \* __call__: quantities
    todo,                    \* merge passes: the spans not yet visited
    merged,                  \* merge passes: merged
    spans,                   \* the spans set on the document
    raised,                  \* the exception that left __call__, or None
    call,                    \* a method of the value model or of the
                             \* registry called on its own, with its arguments
    result,                  \* what the calls made so far returned
    phase_i,                 \* train: the phase being trained
    step,                    \* train: step, of the training loop
    nlp,                     \* train: the pipeline, as the number of optimizer
                             \* steps that its weights went through
    model_last,              \* train: the pipeline saved in model-last
    batch,                   \* batchify_by_words: batch, as the positions of its items
    total,                   \* batchify_by_words: total
    consumed,                \* batchify_by_words: the number of items taken from iterable
    cache,                   \* parse_unit: the cache of lru_cache, least recently used entry first
    workers,                 \* the workers that call parse_unit, each with its position in the call
    writes                   \* the number of times the cache entry of each key was written

vars == <<doc, config, pc, snippets, matches, pseudo, number_idx, quantities,
          matched_unit_indices, matched_number_indices, unmatched, linked,
          extracted, todo, merged, spans, raised, call, result,
          phase_i, step, nlp, model_last,
          batch, total, consumed,
          cache, workers, writes>>

trainVars == <<phase_i, step, nlp, model_last>>

batchVars == <<batch, total, consumed>>

cacheVars == <<cache, workers, writes>>

\* the variables of the functions that are called on their own
sideVars == <<trainVars, batchVars, cacheVars>>

valueVars == <<call, result, sideVars>>

extractVars == <<matches, pseudo, number_idx, quantities, matched_unit_indices,
                 matched_number_indices>>

NoPseudo == [pseudo |-> <<>>, offsets |-> <<>>]
NotLinked == [idx |-> 0, outcome |-> None, by |-> None, unit_idx |-> 0]
NoCall == [op |-> None]
NoModel == <<>>

\* train has not been called
NoTraining ==
    /\ phase_i = 0
    /\ step = 0
    /\ nlp = 0
    /\ model_last = NoModel

\* batchify_by_words has not been called
NoBatching ==
    /\ batch = <<>>
    /\ total = 0
    /\ consumed = 0

\* no worker calls parse_unit
NoParsing ==
    /\ cache = <<>>
    /\ workers = <<>>
    /\ writes = <<>>

NoSideCall == NoTraining /\ NoBatching /\ NoParsing

\* the state before __call__, for a document and a configuration
InitWith(Docs, Configs) ==
    /\ doc \in Docs
    /\ config \in Configs
    /\ pc = "call"
    /\ snippets = <<>>
    /\ matches = <<>>
    /\ pseudo = NoPseudo
    /\ number_idx = 1
    /\ quantities = <<>>
    /\ matched_unit_indices = {}
    /\ matched_number_indices = {}
    /\ unmatched = <<>>
    /\ linked = NotLinked
    /\ extracted = <<>>
    /\ todo = <<>>
    /\ merged = <<>>
    /\ spans = <<>>
    /\ raised = None
    /\ NoSideCall
    /\ call = NoCall
    /\ result = <<>>

\* __call__, up to the first extract_quantities: the snippets
Call ==
    /\ pc = "call"
    /\ snippets' = Snippets(doc, config.span_getter)
    /\ pc' = IF Snippets(doc, config.span_getter) = <<>> THEN "adjacent" ELSE "extract"
    /\ UNCHANGED <<valueVars, doc, config, extractVars, unmatched, linked, extracted, todo,
                   merged, spans, raised>>

\* extract_quantities(s), up to its loop: the matches and the pseudo
\* sentence of the snippet
ExtractBegin ==
    /\ pc = "extract"
    /\ snippets # <<>>
    /\ LET ms == get_matches(doc, Head(snippets))
       IN  /\ matches' = ms
           /\ pseudo' = make_pseudo_sentence(doc, Head(snippets), ms)
    /\ number_idx' = 1
    /\ quantities' = <<>>
    /\ matched_unit_indices' = {}
    /\ matched_number_indices' = {}
    /\ linked' = NotLinked
    /\ pc' = "loop"
    /\ UNCHANGED <<valueVars, doc, config, snippets, unmatched, extracted, todo, merged,
                   spans, raised>>

\* the test at the head of the loop: a candidate is skipped unless it is a
\* sentence end or bears a number label
PassesNumberTest(ent) == ent.is_sent_end \/ ent.label \in number_label_hashes

\* the effect of one iteration on the locals of extract_quantities
ApplyIteration(r) ==
    /\ linked' = [idx |-> number_idx, outcome |-> r.outcome, by |-> r.by,
                   unit_idx |-> IF r.outcome = "quantity" THEN r.unit_idx ELSE 0]
    /\ IF r.outcome = "raised"
       THEN /\ raised' = r.exc
            /\ pc' = "raised"
            /\ UNCHANGED <<number_idx, quantities, matched_unit_indices,
                           matched_number_indices>>
       ELSE /\ number_idx' = number_idx + 1
            /\ UNCHANGED <<pc, raised>>
            /\ IF r.outcome = "quantity"
               THEN /\ quantities' = Append(quantities, r.ent)
                    /\ matched_unit_indices' =
                          IF r.unit_idx # 0
                          THEN matched_unit_indices \cup {r.unit_idx}
                          ELSE matched_unit_indices
                    /\ matched_number_indices' =
                          matched_number_indices \cup {number_idx}
               ELSE UNCHANGED <<quantities, matched_unit_indices,
                                matched_number_indices>>

\* one iteration of the loop over the matches
ExtractIter ==
    /\ pc = "loop"
    /\ number_idx <= Len(matches)
    /\ ApplyIteration(
          IF PassesNumberTest(matches[number_idx])
          THEN ProcessNumber(doc, matches, pseudo, number_idx,
                             matched_unit_indices, config)
          ELSE [outcome |-> "not_number", by |-> None])
    /\ UNCHANGED <<valueVars, doc, config, snippets, matches, pseudo, unmatched, extracted,
                   todo, merged, spans>>

\* the unmatched list built after the loop
Unmatched(ms, matched_units, matched_numbers) ==
    SelectSeq([i \in DOMAIN ms |-> i],
              LAMBDA i : \/ ms[i].label \in UnitLabelHashes(ms) /\ i \notin matched_units
                         \/ ms[i].label \in number_label_hashes /\ i \notin matched_numbers)

\* the end of extract_quantities: __call__ keeps the quantities and goes
\* on with the next snippet
ExtractReturn ==
    /\ pc = "loop"
    /\ number_idx > Len(matches)
    /\ unmatched' = Unmatched(matches, matched_unit_indices, matched_number_indices)
    /\ extracted' = extracted \o quantities
    /\ snippets' = Tail(snippets)
    /\ pc' = IF Tail(snippets) = <<>> THEN "adjacent" ELSE "extract"
    /\ UNCHANGED <<valueVars, doc, config, extractVars, linked, todo, merged, spans, raised>>

\* merge_adjacent_quantities, up to its loop
MergeAdjacentBegin ==
    /\ pc = "adjacent"
    /\ merged' = SubSeq(extracted, 1, IF Len(extracted) > 0 THEN 1 ELSE 0)
    /\ todo' = IF extracted = <<>> THEN <<>> ELSE Tail(extracted)
    /\ pc' = "adjacent_loop"
    /\ UNCHANGED <<valueVars, doc, config, snippets, extractVars, unmatched, linked,
                   extracted, spans, raised>>

\* one iteration of the loop of merge_adjacent_quantities
MergeAdjacentIter ==
    /\ pc = "adjacent_loop"
    /\ todo # <<>>
    /\ LET r == MergeAdjacentBody(merged, Head(todo))
       IN  IF r.ok
           THEN /\ merged' = r.merged
                /\ todo' = Tail(todo)
                /\ UNCHANGED <<pc, raised>>
           ELSE /\ raised' = r.exc
                /\ pc' = "raised"
                /\ UNCHANGED <<merged, todo>>
    /\ UNCHANGED <<valueVars, doc, config, snippets, extractVars, unmatched, linked,
                   extracted, spans>>

\* the return of merge_adjacent_quantities and merge_quantities_in_ranges
\* up to its loop (or its early return)
MergeRangesBegin ==
    /\ pc = "adjacent_loop"
    /\ todo = <<>>
    /\ extracted' = merged
    /\ IF ~config.extract_ranges \/ config.range_patterns = <<>>
       THEN /\ pc' = "finish"
            /\ UNCHANGED <<merged, todo>>
       ELSE /\ pc' = "ranges_loop"
            /\ merged' = SubSeq(merged, 1, IF Len(merged) > 0 THEN 1 ELSE 0)
            /\ todo' = IF merged = <<>> THEN <<>> ELSE Tail(merged)
    /\ UNCHANGED <<valueVars, doc, config, snippets, extractVars, unmatched, linked, spans,
                   raised>>

\* one iteration of the loop of merge_quantities_in_ranges
MergeRangesIter ==
    /\ pc = "ranges_loop"
    /\ todo # <<>>
    /\ LET r == MergeRangesBody(doc, config.range_patterns, merged, Head(todo))
       IN  IF r.ok
           THEN /\ merged' = r.merged
                /\ todo' = Tail(todo)
                /\ UNCHANGED <<pc, raised>>
           ELSE /\ raised' = r.exc
                /\ pc' = "raised"
                /\ UNCHANGED <<merged, todo>>
    /\ UNCHANGED <<valueVars, doc, config, snippets, extractVars, unmatched, linked,
                   extracted, spans>>

\* the return of merge_quantities_in_ranges
MergeRangesReturn ==
    /\ pc = "ranges_loop"
    /\ todo = <<>>
    /\ extracted' = merged
    /\ pc' = "finish"
    /\ UNCHANGED <<valueVars, doc, config, snippets, extractVars, unmatched, linked, todo,
                   merged, spans, raised>>

\* the end of __call__: merge_with_existing when a span_getter is set,
\* then set_spans
Finish ==
    /\ pc = "finish"
    /\ spans' = IF config.span_getter # None
                THEN merge_with_existing(extracted,
                        get_spans(doc, config.span_getter), config.merge_mode)
                ELSE extracted
    /\ pc' = "done"
    /\ UNCHANGED <<valueVars, doc, config, snippets, extractVars, unmatched, linked,
                   extracted, todo, merged, raised>>

Next ==
    \/ Call
    \/ ExtractBegin
    \/ ExtractIter
    \/ ExtractReturn
    \/ MergeAdjacentBegin
    \/ MergeAdjacentIter
    \/ MergeRangesBegin
    \/ MergeRangesIter
    \/ MergeRangesReturn
    \/ Finish

\* a caller that runs one merge pass on a list and keeps the argument in
\* `extracted` and the returned list in `merged`
RunPass(r, arg, from, to) ==
    /\ pc = from
    /\ extracted' = arg
    /\ IF r.ok
       THEN /\ merged' = r.merged
            /\ pc' = to
            /\ UNCHANGED raised
       ELSE /\ raised' = r.exc
            /\ pc' = "raised"
            /\ UNCHANGED merged
    /\ UNCHANGED <<valueVars, doc, config, snippets, extractVars, unmatched, linked, todo,
                   spans>>

\* merge_adjacent_quantities(L), then the same pass on what it returned
AdjacentOnce == RunPass(merge_adjacent_quantities(extracted), extracted,
                        "repeat", "adjacent_once")

AdjacentTwice == RunPass(merge_adjacent_quantities(merged), merged,
                         "adjacent_once", "adjacent_twice")

\* merge_quantities_in_ranges(L), then the same pass on what it returned
RangesOnce == RunPass(merge_quantities_in_ranges(doc, config, extracted),
                      extracted, "repeat", "ranges_once")

RangesTwice == RunPass(merge_quantities_in_ranges(doc, config, merged),
                       merged, "ranges_once", "ranges_twice")

NextRepeat ==
    \/ AdjacentOnce
    \/ AdjacentTwice
    \/ RangesOnce
    \/ RangesTwice

(***************************************************************************)
(* The registry and the value model called on their own: `call` is the     *)
(* method and its arguments, `result` the sequence of what was returned.   *)
(***************************************************************************)
pipelineVars == <<doc, config, pc, snippets, extractVars, unmatched, linked,
                  extracted, todo, merged, spans, raised>>

\* registry.parse_unit(unit), on the registry built from the unit table
ParseUnit ==
    /\ call.op = "parse_unit"
    /\ result = <<>>
    /\ result' = <<TryParseUnit(UnitRegistry(config.units_config), call.unit)>>
    /\ UNCHANGED <<call, sideVars, pipelineVars>>

\* self.convert_to(other_unit)
ConvertTo ==
    /\ call.op = "convert_to"
    /\ result = <<>>
    /\ result' = <<convert_to(call.self, call.other_unit)>>
    /\ UNCHANGED <<call, sideVars, pipelineVars>>

\* the converted value, as a quantity in other_unit, converted to the unit
\* of self
ConvertBack ==
    /\ call.op = "convert_to"
    /\ Len(result) = 1
    /\ result[1].ok
    /\ result' = Append(result,
                    convert_to([call.self EXCEPT !.value = result[1].value,
                                                 !.unit = call.other_unit],
                               call.self.unit))
    /\ UNCHANGED <<call, sideVars, pipelineVars>>

\* self < other
LessThan ==
    /\ call.op = "lt"
    /\ result = <<>>
    /\ result' = <<Lt(call.self, call.other)>>
    /\ UNCHANGED <<call, sideVars, pipelineVars>>

\* self <= other
LessEqual ==
    /\ call.op = "le"
    /\ result = <<>>
    /\ result' = <<Le(call.self, call.other)>>
    /\ UNCHANGED <<call, sideVars, pipelineVars>>

NextValues ==
    \/ ParseUnit
    \/ ConvertTo
    \/ ConvertBack
    \/ LessThan
    \/ LessEqual

(***************************************************************************)
(* The construction of the matcher.  `call` holds the arguments of         *)
(* QuantitiesMatcher.__init__; `config` is the matcher once built.         *)
(***************************************************************************)
NotBuilt == [built |-> FALSE]

constructVars == <<doc, pc, snippets, extractVars, unmatched, linked,
                   extracted, todo, merged, spans, raised>>

\* QuantitiesMatcher.__init__: the registry, the followers and the range
\* patterns are stored as they come; nothing is checked
Construct ==
    /\ call.op = "QuantitiesMatcher"
    /\ ~config.built
    /\ config' = [built          |-> TRUE,
                  unit_registry  |-> UnitRegistry(NormalizedConfig(call.units_config)),
                  unit_followers |-> UnitFollowers(call.units_config),
                  extract_ranges |-> call.extract_ranges,
                  range_patterns |-> call.range_patterns]
    /\ result' = Append(result, [ok |-> TRUE])
    /\ UNCHANGED <<call, sideVars, constructVars>>

\* the first use of the range patterns, in merge_quantities_in_ranges on a
\* document with two quantities separated by "et"
MatchRangePatterns ==
    /\ config.built
    /\ config.extract_ranges
    /\ config.range_patterns # <<>>
    /\ Len(result) = 1
    /\ result' = Append(result,
                    TryMatchingPatterns(config.range_patterns, None, <<"et">>))
    /\ UNCHANGED <<call, sideVars, config, constructVars>>

NextConstruct ==
    \/ Construct
    \/ MatchRangePatterns


(***************************************************************************)
(* train.  `call` holds the arguments: max_steps, validation_interval and  *)
(* the number of phases of the pipeline.  The pipeline is identified by    *)
(* the number of optimizer steps its weights went through; this is the     *)
(* main process, the one that validates and saves.                         *)
(***************************************************************************)
trainPipelineVars == <<doc, config, snippets, extractVars, unmatched, linked,
                       extracted, todo, merged, spans, batchVars, cacheVars>>

\* train, up to the loop over the phases
TrainBegin ==
    /\ pc = "train"
    /\ phase_i' = 0
    /\ pc' = IF call.phases > 0 THEN "phase" ELSE "returned"
    /\ UNCHANGED <<call, result, step, nlp, model_last, raised, trainPipelineVars>>

\* one phase, up to its training loop: the optimizer is built, and the loop
\* starts at step 0
PhaseBegin ==
    /\ pc = "phase"
    /\ step' = 0
    /\ pc' = "loop"
    /\ UNCHANGED <<call, result, phase_i, nlp, model_last, raised, trainPipelineVars>>

\* the head of one iteration of the training loop: every
\* validation_interval steps the model is scored and saved, and the loop
\* is left when step is max_steps
Validate ==
    /\ pc = "loop"
    /\ IF step % call.validation_interval = 0
       THEN /\ model_last' = <<nlp>>
            /\ result' = Append(result, step)
       ELSE UNCHANGED <<model_last, result>>
    /\ pc' = IF step = call.max_steps THEN "phase_end" ELSE "optim"
    /\ UNCHANGED <<call, phase_i, step, nlp, raised, trainPipelineVars>>

\* the rest of the iteration: the losses of the batches, and the optimizer
\* step; a NaN loss raises
OptimStep ==
    /\ pc = "optim"
    /\ \E nan \in BOOLEAN :
          IF nan
          THEN /\ raised' = "ValueError"
               /\ pc' = "raised"
               /\ UNCHANGED <<nlp, step>>
          ELSE /\ nlp' = nlp + 1
               /\ step' = step + 1
               /\ pc' = "loop"
               /\ UNCHANGED raised
    /\ UNCHANGED <<call, result, phase_i, model_last, trainPipelineVars>>

\* the end of a phase: the next phase, or the return of train
PhaseEnd ==
    /\ pc = "phase_end"
    /\ phase_i' = phase_i + 1
    /\ pc' = IF phase_i + 1 < call.phases THEN "phase" ELSE "returned"
    /\ UNCHANGED <<call, result, step, nlp, model_last, raised, trainPipelineVars>>

NextTrain ==
    \/ TrainBegin
    \/ PhaseBegin
    \/ Validate
    \/ OptimStep
    \/ PhaseEnd

(***************************************************************************)
(* batchify_by_words.  `call` holds the arguments; iterable is the         *)
(* sequence of the lengths of its items, and an item is known by its       *)
(* position.  `result` is the sequence of the batches yielded so far.      *)
(***************************************************************************)
batchPipelineVars == <<doc, config, snippets, extractVars, unmatched, linked,
                       extracted, todo, merged, spans, raised, trainVars,
                       cacheVars>>

\* a body of the loop that tests the total before the item is counted
BatchifyBody_TotalOnly(b, t, item, count, batch_size) ==
    IF t > batch_size /\ Len(b) > 0
    THEN [yielded |-> <<b>>, batch |-> <<item>>, total |-> count]
    ELSE [yielded |-> <<>>, batch |-> Append(b, item), total |-> t + count]

\* the body of the loop over the items: what is yielded, and batch and
\* total once the item is appended
BatchifyBody(b, t, item, count, batch_size) ==
    IF t + count > batch_size /\ Len(b) > 0
    THEN [yielded |-> <<b>>, batch |-> <<item>>, total |-> count]
    ELSE [yielded |-> <<>>, batch |-> Append(b, item), total |-> t + count]

\* one iteration of `for item in iterable`
BatchifyItem ==
    /\ pc = "batchify"
    /\ consumed < Len(call.iterable)
    /\ LET r == BatchifyBody(batch, total, consumed + 1,
                             call.iterable[consumed + 1], call.batch_size)
       IN  /\ result' = result \o r.yielded
           /\ batch' = r.batch
           /\ total' = r.total
    /\ consumed' = consumed + 1
    /\ UNCHANGED <<call, pc, batchPipelineVars>>

\* the end of the iterable: the pending batch is yielded unless drop_last
BatchifyEnd ==
    /\ pc = "batchify"
    /\ consumed = Len(call.iterable)
    /\ result' = IF Len(batch) > 0 /\ ~call.drop_last
                 THEN Append(result, batch)
                 ELSE result
    /\ pc' = "exhausted"
    /\ UNCHANGED <<call, batchVars, batchPipelineVars>>

NextBatchify ==
    \/ BatchifyItem
    \/ BatchifyEnd

(***************************************************************************)
(* extract_units, called on its own on the term matches of a document:     *)
(* `call` holds compose_units, `result` the list that is returned.  A      *)
(* term match stands on one token; the matches come in document order.     *)
(***************************************************************************)
UnitPartKinds == {"m", "kg", "per"}

\* the term matches of a document: the unit parts, and the stop words
TermMatches(toks) ==
    SelectSeq([i \in DOMAIN toks |->
                  [start |-> i - 1, end |-> i, label |-> <<toks[i]>>]],
              LAMBDA t : t.label[1] \in UnitPartKinds \cup {"stop"})

unit_part_label_hashes == {<<k>> : k \in UnitPartKinds}

\* a unit made of all the parts of the run, a trailing "per" included
UnitOfRun_KeepPer(current) ==
    IF current = <<>> THEN <<>>
    ELSE <<[start |-> current[1].start,
            end   |-> current[Len(current)].end,
            label |-> [k \in 1 .. Len(current) |-> current[k].label[1]]]>>

\* the unit of the parts accumulated in `current`, up to the last part
\* that is not "per": a list of one unit, or of none
UnitOfRun(current) ==
    LET ends == {i \in DOMAIN current : current[i].label # <<"per">>}
    IN  IF ends = {} THEN <<>>
        ELSE LET end == CHOOSE i \in ends : \A j \in ends : j <= i
             IN  <<[start |-> current[1].start,
                    end   |-> current[end].end,
                    label |-> [k \in 1 .. end |-> current[k].label[1]]]>>

\* the loop over the term matches and the flush that follows it
RECURSIVE ExtractUnitsLoop(_, _, _, _, _)
ExtractUnitsLoop(toks, compose_units, parts, current, units) ==
    IF parts = <<>> THEN units \o UnitOfRun(current)
    ELSE LET unit_part == Head(parts)
         IN  IF unit_part.label \notin unit_part_label_hashes
             THEN ExtractUnitsLoop(toks, compose_units, Tail(parts), current, units)
             ELSE IF /\ current # <<>>
                     /\ \/ ~BlankText(toks, Last(current).end, unit_part.start)
                        \/ ~compose_units /\ Last(current).label # <<"per">>
             THEN ExtractUnitsLoop(toks, compose_units, Tail(parts),
                                   <<unit_part>>, units \o UnitOfRun(current))
             ELSE ExtractUnitsLoop(toks, compose_units, Tail(parts),
                                   Append(current, unit_part), units)

extract_units(toks, compose_units) ==
    ExtractUnitsLoop(toks, compose_units, TermMatches(toks), <<>>, <<>>)

ExtractUnits ==
    /\ call.op = "extract_units"
    /\ result = <<>>
    /\ result' = <<extract_units(doc, call.compose_units)>>
    /\ UNCHANGED <<call, sideVars, pipelineVars>>

NextUnits == ExtractUnits

(***************************************************************************)
(* make_pseudo_sentence, called on its own: `call` holds the snippet,      *)
(* `matches` the candidates of the snippet; the pair that is returned is   *)
(* kept in `pseudo`.                                                       *)
(***************************************************************************)
MakePseudoSentence ==
    /\ call.op = "make_pseudo_sentence"
    /\ pc = "pseudo"
    /\ pseudo' = make_pseudo_sentence(doc, call.snippet, matches)
    /\ pc' = "returned"
    /\ UNCHANGED <<valueVars, doc, config, snippets, matches, number_idx,
                   quantities, matched_unit_indices, matched_number_indices,
                   unmatched, linked, extracted, todo, merged, spans, raised>>

NextPseudo == MakePseudoSentence

(***************************************************************************)
(* parse_unit behind lru_cache, called by several workers on one registry. *)
(* A call looks the key up in the cache; on a miss it runs the function,   *)
(* with no lock held, and then stores the result unless the key was added  *)
(* in the meantime; a full cache drops its least recently used entry.      *)
(***************************************************************************)
\* maxsize of lru_cache, scaled down: the keys of CacheKeys outnumber it as
\* the composite unit strings of a corpus can outnumber 1000
maxsize == 2

MaxWorkers == 2

MaxCalls == 2

Workers == 1 .. MaxWorkers

CacheKeys == {<<"m">>, <<"kg">>, <<"cm">>, <<"xyz">>}

NoResult == [ok |-> FALSE, exc |-> None]

IdleWorker == [pc |-> "idle", unit |-> NoUnit, value |-> NoResult,
               calls |-> 0, returned |-> NoResult]

\* the place of a key in the cache, 0 when it has no entry
CacheIndex(entries, key) ==
    IF \E i \in DOMAIN entries : entries[i].key = key
    THEN CHOOSE i \in DOMAIN entries : entries[i].key = key
    ELSE 0

\* the entry at place i becomes the most recently used
MoveToEnd(entries, i) ==
    SubSeq(entries, 1, i - 1) \o SubSeq(entries, i + 1, Len(entries))
        \o <<entries[i]>>

\* the store after a miss: nothing if the key was added during the call,
\* otherwise a new entry, in place of the oldest one when the cache is full
CacheInsert(entries, key, value) ==
    IF CacheIndex(entries, key) # 0
    THEN [written |-> FALSE, cache |-> entries]
    ELSE [written |-> TRUE,
          cache   |-> Append(IF Len(entries) >= maxsize THEN Tail(entries)
                             ELSE entries,
                             [key |-> key, value |-> value])]

cachePipelineVars == <<doc, config, pc, snippets, extractVars, unmatched, linked,
                       extracted, todo, merged, spans, raised, call, result,
                       trainVars, batchVars>>

\* a worker calls parse_unit(unit): a hit returns the cached value
CacheLookup(w) ==
    /\ workers[w].pc = "idle"
    /\ workers[w].calls < MaxCalls
    /\ \E unit \in CacheKeys :
          LET i == CacheIndex(cache, unit)
          IN  IF i # 0
              THEN /\ cache' = MoveToEnd(cache, i)
                   /\ workers' = [workers EXCEPT ![w] =
                         [@ EXCEPT !.unit = unit, !.calls = @ + 1,
                                   !.returned = [ok |-> TRUE,
                                                 value |-> cache[i].value]]]
              ELSE /\ cache' = cache
                   /\ workers' = [workers EXCEPT ![w] =
                         [@ EXCEPT !.pc = "call", !.unit = unit, !.calls = @ + 1,
                                   !.returned = NoResult]]
    /\ UNCHANGED <<writes, cachePipelineVars>>

\* after a miss, the body of parse_unit: a KeyError leaves the call
CacheCompute(w) ==
    /\ workers[w].pc = "call"
    /\ LET r == TryParseUnit(unit_registry, workers[w].unit)
       IN  workers' = [workers EXCEPT ![w] =
              IF r.ok THEN [@ EXCEPT !.pc = "store", !.value = r]
              ELSE [@ EXCEPT !.pc = "idle", !.returned = r]]
    /\ UNCHANGED <<cache, writes, cachePipelineVars>>

\* after the body, the store of the result, and the return
CacheStore(w) ==
    /\ workers[w].pc = "store"
    /\ LET r == CacheInsert(cache, workers[w].unit, workers[w].value.value)
       IN  /\ cache' = r.cache
           /\ writes' = IF r.written
                        THEN [writes EXCEPT ![workers[w].unit] = @ + 1]
                        ELSE writes
    /\ workers' = [workers EXCEPT ![w] =
          [@ EXCEPT !.pc = "idle", !.returned = workers[w].value,
                    !.value = NoResult]]
    /\ UNCHANGED cachePipelineVars

NextCache ==
    \/ \E w \in Workers : CacheLookup(w)
    \/ \E w \in Workers : CacheCompute(w)
    \/ \E w \in Workers : CacheStore(w)

(***************************************************************************)
(* Specifications: the same call, over different families of documents    *)
(* and configurations.                                                     *)
(***************************************************************************)
\* A document is drawn as a sequence of items: a token kind, or a run of
\* whitespace tokens as long as a snippet limit (gapA, gapB) or one token
\* longer (gapA1, gapB1).
Spaces(n) == [i \in 1 .. n |-> "space"]

RunOf(item) ==
    CASE item = "gapA"  -> Spaces(AFTER_SNIPPET_LIMIT)
      [] item = "gapA1" -> Spaces(AFTER_SNIPPET_LIMIT + 1)
      [] item = "gapB"  -> Spaces(BEFORE_SNIPPET_LIMIT)
      [] item = "gapB1" -> Spaces(BEFORE_SNIPPET_LIMIT + 1)
      [] OTHER -> <<item>>

RECURSIVE Expand(_)
Expand(items) ==
    IF items = <<>> THEN <<>> ELSE RunOf(Head(items)) \o Expand(Tail(items))

DocsOver(kinds, n) == {Expand(d) : d \in UNION {[1 .. k -> kinds] : k \in 1 .. n}}

AllKinds == NumberLiteralKinds \cup NumberWordKinds \cup UnitKinds
                \cup TermKinds \cup PlainKinds

range_patterns == << <<"entre", "et">>, <<None, "et">> >>

\* the options of the pipe that the model varies
Config(q, t, ranges, patterns, getter, mode, limits) ==
    [quantities     |-> q,
     tables         |-> t,
     extract_ranges |-> ranges,
     range_patterns |-> patterns,
     span_getter    |-> getter,
     merge_mode     |-> mode,
     after_snippet_limit  |-> limits[1],
     before_snippet_limit |-> limits[2]]

DefaultLimits == <<AFTER_SNIPPET_LIMIT, BEFORE_SNIPPET_LIMIT>>

\* Spec: every short document over all the token kinds, extracted as a
\* whole, with and without tables, for the size measure and for all
\* measures.
MaxTokens == 3

Init ==
    InitWith(DocsOver(AllKinds, MaxTokens),
             {Config(q, t, TRUE, range_patterns, None, "intersect", DefaultLimits) :
                 q \in {"size", "all"}, t \in {"none", "onerow", "tworows"}})

Spec == Init /\ [][Next]_vars

\* SpecGetter: documents of up to MaxGetterTokens tokens, extracted around
\* the spans of interest of a span_getter, in both merge modes.
MaxGetterTokens == 4

GetterKinds == {"n1", "n78", "m", "sent", "word"}

InitGetter ==
    InitWith(DocsOver(GetterKinds, MaxGetterTokens),
             {Config(q, "none", TRUE, range_patterns, g, mode, DefaultLimits) :
                 q \in {"size", "all"},
                 g \in {"ordered", "reversed", "whole"},
                 mode \in {"intersect", "align"}})

SpecGetter == InitGetter /\ [][Next]_vars

\* SpecEnum: documents of up to MaxEnumItems items made of numbers,
\* separators, units, plain words and whitespace runs one token longer
\* than the forward window.
MaxEnumItems == 6

EnumKinds == {"n1", "stop", "m", "word", "gapA1"}

InitEnum ==
    InitWith(DocsOver(EnumKinds, MaxEnumItems),
             {Config("all", "none", TRUE, range_patterns, None, "intersect",
                     DefaultLimits)})

SpecEnum == InitEnum /\ [][Next]_vars

\* SpecWindow: documents of up to MaxWindowItems items made of numbers,
\* units, unitless triggers and whitespace runs as long as each window and
\* one token longer, for pipes configured with the default limits and
\* with limits of SmallLimit tokens.
MaxWindowItems == 3

SmallLimit == 2

WindowKinds == {"n1", "m", "trig", "gapA", "gapA1", "gapB", "gapB1"}

InitWindow ==
    InitWith(DocsOver(WindowKinds, MaxWindowItems),
             {Config("all", t, TRUE, range_patterns, None, "intersect", <<a, b>>) :
                 t \in {"none", "onerow"},
                 a \in {SmallLimit, AFTER_SNIPPET_LIMIT},
                 b \in {SmallLimit, BEFORE_SNIPPET_LIMIT}})

SpecWindow == InitWindow /\ [][Next]_vars

\* SpecMerge: the two merge passes and the end of __call__, applied to a
\* list of up to MaxQuantities quantity spans.  Each quantity stands on
\* one token and is preceded by nothing, by "et" or by "entre"; its value
\* is a scalar or a range of two floats, and its label is its unit.
MaxQuantities == 3

MergeValues ==
    {SimpleQuantity(RInt(1), <<"m">>), SimpleQuantity(RInt(78), <<"cm">>),
     SimpleQuantity(RInt(1), <<"kg">>),
     RangeQuantity(RInt(1), RInt(3), <<"m">>, 1)}

MergeItems == [pre : {"none", "stop", "word"}, value : MergeValues]

\* the tokens before the quantity of an item
PreTokens(pre) ==
    CASE pre = "none"      -> <<>>
      [] pre = "stop_word" -> <<"stop", "word">>
      [] OTHER             -> <<pre>>

\* the tokens of a sequence of items
RECURSIVE ItemTokens(_)
ItemTokens(items) ==
    IF items = <<>> THEN <<>>
    ELSE PreTokens(Head(items).pre) \o <<"n1">> \o ItemTokens(Tail(items))

\* the quantity spans of a sequence of items
ItemSpans(items) ==
    [i \in DOMAIN items |->
        [start |-> Len(ItemTokens(SubSeq(items, 1, i))) - 1,
         end   |-> Len(ItemTokens(SubSeq(items, 1, i))),
         label |-> items[i].value.unit,
         value |-> items[i].value]]

MergeConfigs ==
    {Config("all", "none", r[1], r[2], None, "intersect", DefaultLimits) :
        r \in {<<FALSE, range_patterns>>, <<TRUE, <<>>>>, <<TRUE, range_patterns>>,
               <<TRUE, << <<None, "et">>, <<"entre", "et">> >> >>}}

InitMerge ==
    /\ \E items \in UNION {[1 .. k -> MergeItems] : k \in 1 .. MaxQuantities} :
          /\ doc = ItemTokens(items)
          /\ extracted = ItemSpans(items)
    /\ config \in MergeConfigs
    /\ pc = "adjacent"
    /\ snippets = <<>>
    /\ matches = <<>>
    /\ pseudo = NoPseudo
    /\ number_idx = 1
    /\ quantities = <<>>
    /\ matched_unit_indices = {}
    /\ matched_number_indices = {}
    /\ unmatched = <<>>
    /\ linked = NotLinked
    /\ todo = <<>>
    /\ merged = <<>>
    /\ spans = <<>>
    /\ raised = None
    /\ NoSideCall
    /\ call = NoCall
    /\ result = <<>>

NextMerge ==
    \/ MergeAdjacentBegin
    \/ MergeAdjacentIter
    \/ MergeRangesBegin
    \/ MergeRangesIter
    \/ MergeRangesReturn
    \/ Finish

SpecMerge == InitMerge /\ [][NextMerge]_vars

\* SpecRepeat: each merge pass applied to a position-sorted list of up to
\* MaxRepeatQuantities quantity spans and then to its own output.  The
\* quantities are those of SpecMerge; between two of them there may also
\* be the two tokens "et entre".
MaxRepeatQuantities == 3

RepeatItems == [pre : {"none", "stop", "word", "stop_word"}, value : MergeValues]

InitRepeat ==
    /\ \E items \in UNION {[1 .. k -> RepeatItems] : k \in 1 .. MaxRepeatQuantities} :
          /\ doc = ItemTokens(items)
          /\ extracted = ItemSpans(items)
    /\ config \in MergeConfigs
    /\ pc = "repeat"
    /\ snippets = <<>>
    /\ matches = <<>>
    /\ pseudo = NoPseudo
    /\ number_idx = 1
    /\ quantities = <<>>
    /\ matched_unit_indices = {}
    /\ matched_number_indices = {}
    /\ unmatched = <<>>
    /\ linked = NotLinked
    /\ todo = <<>>
    /\ merged = <<>>
    /\ spans = <<>>
    /\ raised = None
    /\ NoSideCall
    /\ call = NoCall
    /\ result = <<>>

SpecRepeat == InitRepeat /\ [][NextRepeat]_vars

\* SpecValues: one call of parse_unit on a key of up to MaxKeyLen pieces,
\* or one conversion (and the conversion back), or one comparison, of
\* quantities whose bounds are the integers up to MaxValue.  parse_unit is
\* called on the registry of the unit table of the pipeline specifications
\* and on that of a second table with a full-width key, a squared unit, a
\* reciprocal of its own ("per_min") and an entry "per_m" that the
\* construction overwrites.
MaxKeyLen == 3

MaxValue == 3

KeyPieces == {"m", "cm", "g", "per", "fullwidth_m", "dm2", "min", "xyz"}

Keys == UNION {[1 .. n -> KeyPieces] : n \in 1 .. MaxKeyLen}

other_units_config ==
    (<<"fullwidth_m">> :> [dim |-> "length", degree |-> 1, scale |-> <<100, 1>>,
                           followed_by |-> <<"cm">>]) @@
    (<<"cm">> :> [dim |-> "length", degree |-> 1, scale |-> <<1, 1>>,
                  followed_by |-> NoUnit]) @@
    (<<"dm2">> :> [dim |-> "length", degree |-> 2, scale |-> <<100, 1>>,
                  followed_by |-> NoUnit]) @@
    (<<"per", "min">> :> [dim |-> "time", degree |-> -1, scale |-> <<1, 60>>,
                          followed_by |-> NoUnit]) @@
    (<<"per", "m">> :> [dim |-> "length", degree |-> -1, scale |-> <<5, 1>>,
                        followed_by |-> NoUnit])

ValueUnits ==
    {<<"m">>, <<"cm">>, <<"kg">>, <<"g">>, <<"per", "m">>, <<"m", "cm">>, <<"xyz">>}

Floats == {RInt(n) : n \in 1 .. MaxValue}

\* scalars and ranges of two floats
Values ==
    {SimpleQuantity(v, u) : v \in Floats, u \in ValueUnits}
        \cup {RangeQuantity(a, b, u, 1) : a \in Floats, b \in Floats, u \in ValueUnits}

\* the range that a second range merge builds from a range and a scalar
NestedRange == RangeQuantity(<<RInt(1), RInt(2)>>, RInt(3), <<"m">>, 2)

InitValues ==
    /\ \/ /\ config = [units_config |-> units_config]
          /\ \E x \in Values, nested \in BOOLEAN, u \in ValueUnits :
                call = [op |-> "convert_to",
                        self |-> IF nested THEN NestedRange ELSE x,
                        other_unit |-> u]
       \/ /\ config = [units_config |-> units_config]
          /\ \E x \in Values, y \in Values, nested \in {"none", "self", "other"},
                o \in {"lt", "le"} :
                call = [op |-> o,
                        self  |-> IF nested = "self" THEN NestedRange ELSE x,
                        other |-> IF nested = "other" THEN NestedRange ELSE y]
       \/ /\ config \in {[units_config |-> t] : t \in {units_config, other_units_config}}
          /\ call \in {[op |-> "parse_unit", unit |-> k] : k \in Keys}
    /\ result = <<>>
    /\ doc = <<>>
    /\ pc = "value"
    /\ snippets = <<>>
    /\ matches = <<>>
    /\ pseudo = NoPseudo
    /\ number_idx = 1
    /\ quantities = <<>>
    /\ matched_unit_indices = {}
    /\ matched_number_indices = {}
    /\ unmatched = <<>>
    /\ linked = NotLinked
    /\ extracted = <<>>
    /\ todo = <<>>
    /\ merged = <<>>
    /\ spans = <<>>
    /\ raised = None
    /\ NoSideCall

SpecValues == InitValues /\ [][NextValues]_vars

\* SpecConstruct: the construction of a matcher from a unit table of up to
\* MaxUnits items and a list of range patterns, and the first use of the
\* patterns.  The tables include keys that are equal after normalisation
\* ("m" and the full-width m) and units that name themselves as follower;
\* the pattern lists include tuples of one and of three elements.
MaxUnits == 2

\* an explicitly configured reciprocal "per_m"
ReciprocalItems ==
    {<<(<<"per", "m">>),
       [dim |-> "length", degree |-> -1, scale |-> sc, followed_by |-> NoUnit]>> :
        sc \in {<<1, 100>>, <<5, 1>>}}

UnitItems ==
    {<<k, [dim |-> "length", degree |-> 1, scale |-> sc, followed_by |-> f]>> :
        k \in {<<"m">>, <<"fullwidth_m">>, <<"cm">>},
        sc \in {<<100, 1>>, <<1, 1>>},
        f \in {NoUnit, <<"cm">>, <<"m">>}}
    \cup ReciprocalItems

\* the items of a dict: no key twice
UnitTables ==
    {t \in UNION {[1 .. n -> UnitItems] : n \in 1 .. MaxUnits} :
        \A i, j \in DOMAIN t : i # j => t[i][1] # t[j][1]}

PatternLists ==
    {range_patterns, <<>>, << <<"entre", "et", "et">> >>,
     << <<None, "et">>, <<"et">> >>}

InitConstruct ==
    /\ \E t \in UnitTables, ps \in PatternLists, r \in BOOLEAN :
          call = [op |-> "QuantitiesMatcher", units_config |-> t,
                  extract_ranges |-> r, range_patterns |-> ps]
    /\ config = NotBuilt
    /\ result = <<>>
    /\ doc = <<>>
    /\ pc = "construct"
    /\ snippets = <<>>
    /\ matches = <<>>
    /\ pseudo = NoPseudo
    /\ number_idx = 1
    /\ quantities = <<>>
    /\ matched_unit_indices = {}
    /\ matched_number_indices = {}
    /\ unmatched = <<>>
    /\ linked = NotLinked
    /\ extracted = <<>>
    /\ todo = <<>>
    /\ merged = <<>>
    /\ spans = <<>>
    /\ raised = None
    /\ NoSideCall

SpecConstruct == InitConstruct /\ [][NextConstruct]_vars

\* SpecTrain: one call of train, with max_steps up to MaxSteps, a
\* validation interval up to MaxInterval and up to MaxPhases phases.
MaxSteps == 3

MaxInterval == 3

MaxPhases == 2

InitTrain ==
    /\ \E m \in 1 .. MaxSteps, v \in 1 .. MaxInterval, n \in 1 .. MaxPhases :
          call = [op |-> "train", max_steps |-> m, validation_interval |-> v,
                  phases |-> n]
    /\ result = <<>>
    /\ pc = "train"
    /\ NoTraining
    /\ NoBatching
    /\ NoParsing
    /\ doc = <<>>
    /\ config = NotBuilt
    /\ snippets = <<>>
    /\ matches = <<>>
    /\ pseudo = NoPseudo
    /\ number_idx = 1
    /\ quantities = <<>>
    /\ matched_unit_indices = {}
    /\ matched_number_indices = {}
    /\ unmatched = <<>>
    /\ linked = NotLinked
    /\ extracted = <<>>
    /\ todo = <<>>
    /\ merged = <<>>
    /\ spans = <<>>
    /\ raised = None

SpecTrain == InitTrain /\ [][NextTrain]_vars

\* SpecBatchify: batchify_by_words over every iterable of up to MaxItems
\* items of up to MaxWords words (an item may be empty), with a batch size
\* of 0 to MaxBatchSize words, with and without drop_last.
MaxItems == 3

MaxWords == 3

MaxBatchSize == 3

InitBatchify ==
    /\ \E it \in UNION {[1 .. n -> 0 .. MaxWords] : n \in 0 .. MaxItems},
          size \in 0 .. MaxBatchSize, drop \in BOOLEAN :
          call = [op |-> "batchify_by_words", iterable |-> it,
                  batch_size |-> size, drop_last |-> drop]
    /\ result = <<>>
    /\ pc = "batchify"
    /\ NoBatching
    /\ NoTraining
    /\ NoParsing
    /\ doc = <<>>
    /\ config = NotBuilt
    /\ snippets = <<>>
    /\ matches = <<>>
    /\ pseudo = NoPseudo
    /\ number_idx = 1
    /\ quantities = <<>>
    /\ matched_unit_indices = {}
    /\ matched_number_indices = {}
    /\ unmatched = <<>>
    /\ linked = NotLinked
    /\ extracted = <<>>
    /\ todo = <<>>
    /\ merged = <<>>
    /\ spans = <<>>
    /\ raised = None

SpecBatchify == InitBatchify /\ [][NextBatchify]_vars

\* SpecTable: documents of up to MaxTableItems items made of numbers, units,
\* separators, plain words and whitespace runs one token longer than each
\* window, all inside a table of one row or of two rows.
MaxTableItems == 3

TableKinds == {"n1", "m", "kg", "stop", "word", "gapA1", "gapB1"}

InitTable ==
    InitWith(DocsOver(TableKinds, MaxTableItems),
             {Config("all", t, TRUE, range_patterns, None, "intersect", DefaultLimits) :
                 t \in {"onerow", "tworows"}})

SpecTable == InitTable /\ [][Next]_vars

\* SpecUnits: extract_units on every document of up to MaxUnitTokens tokens
\* made of unit parts, "per", stop words, plain words and spaces, with and
\* without the composition of units.
MaxUnitTokens == 4

UnitTokenKinds == UnitPartKinds \cup {"stop", "word", "space"}

InitUnits ==
    /\ doc \in UNION {[1 .. n -> UnitTokenKinds] : n \in 0 .. MaxUnitTokens}
    /\ call \in {[op |-> "extract_units", compose_units |-> c] : c \in BOOLEAN}
    /\ result = <<>>
    /\ config = NotBuilt
    /\ pc = "units"
    /\ snippets = <<>>
    /\ matches = <<>>
    /\ pseudo = NoPseudo
    /\ number_idx = 1
    /\ quantities = <<>>
    /\ matched_unit_indices = {}
    /\ matched_number_indices = {}
    /\ unmatched = <<>>
    /\ linked = NotLinked
    /\ extracted = <<>>
    /\ todo = <<>>
    /\ merged = <<>>
    /\ spans = <<>>
    /\ raised = None
    /\ NoSideCall

SpecUnits == InitUnits /\ [][NextUnits]_vars

\* SpecPseudo: make_pseudo_sentence on every span of every document of up
\* to MaxPseudoTokens tokens made of numbers, units, stop words, plain
\* words and spaces, with the candidates of that span.
MaxPseudoTokens == 4

PseudoKinds == {"n1", "m", "stop", "word", "space"}

InitPseudo ==
    /\ doc \in UNION {[1 .. n -> PseudoKinds] : n \in 1 .. MaxPseudoTokens}
    /\ \E s \in 0 .. Len(doc), e \in 0 .. Len(doc) :
          /\ s <= e
          /\ call = [op |-> "make_pseudo_sentence", snippet |-> <<s, e>>]
          /\ matches = get_matches(doc, <<s, e>>)
    /\ result = <<>>
    /\ config = NotBuilt
    /\ pc = "pseudo"
    /\ snippets = <<>>
    /\ pseudo = NoPseudo
    /\ number_idx = 1
    /\ quantities = <<>>
    /\ matched_unit_indices = {}
    /\ matched_number_indices = {}
    /\ unmatched = <<>>
    /\ linked = NotLinked
    /\ extracted = <<>>
    /\ todo = <<>>
    /\ merged = <<>>
    /\ spans = <<>>
    /\ raised = None
    /\ NoSideCall

SpecPseudo == InitPseudo /\ [][NextPseudo]_vars

\* SpecCache: MaxWorkers workers, each making up to MaxCalls calls of
\* parse_unit on the registry of the unit table, with keys among three
\* known units and an unknown one, in every interleaving.
InitCache ==
    /\ cache = <<>>
    /\ workers = [w \in Workers |-> IdleWorker]
    /\ writes = [k \in CacheKeys |-> 0]
    /\ call = NoCall
    /\ result = <<>>
    /\ NoTraining
    /\ NoBatching
    /\ doc = <<>>
    /\ config = [units_config |-> units_config]
    /\ pc = "parse"
    /\ snippets = <<>>
    /\ matches = <<>>
    /\ pseudo = NoPseudo
    /\ number_idx = 1
    /\ quantities = <<>>
    /\ matched_unit_indices = {}
    /\ matched_number_indices = {}
    /\ unmatched = <<>>
    /\ linked = NotLinked
    /\ extracted = <<>>
    /\ todo = <<>>
    /\ merged = <<>>
    /\ spans = <<>>
    /\ raised = None

SpecCache == InitCache /\ [][NextCache]_vars

(***************************************************************************)
(* Properties                                                              *)
(***************************************************************************)
SortedByStart(s) == \A i \in 1 .. Len(s) - 1 : s[i].start <= s[i + 1].start

\* C1: the quantity spans set on the document are in non-decreasing order
\* of start offset, whatever the order in which the span_getter supplies
\* the spans of interest, in both merge modes.
C1_OutputSorted == pc = "done" => SortedByStart(spans)

\* the unit each strategy gives number i when run on its own, in the order
\* adjacent, table, follower, unitless (the table strategy knows the unit
\* found after the number even when the first strategy rejected it)
StrategyUnits(toks, ms, ps, i, value, matched_units, tables) ==
    << AdjacentUnit(ms, ps, i).unit_norm,
       TableUnit(ms, i, TablesOf(toks, tables),
                 [unit_idx  |-> AdjacentUnit(ms, ps, i).unit_idx,
                  unit_norm |-> NoUnit]).unit_norm,
       FollowerUnit(ms, i, matched_units),
       UnitlessUnit(ms, ps, i, value) >>

RECURSIVE FirstSuccess(_)
FirstSuccess(us) ==
    IF us = <<>> THEN NoUnit
    ELSE IF Head(us) # NoUnit THEN Head(us) ELSE FirstSuccess(Tail(us))

\* an iteration of the loop that appends a quantity
AppendsQuantity ==
    /\ pc = "loop"
    /\ number_idx <= Len(matches)
    /\ linked'.idx = number_idx
    /\ linked'.outcome = "quantity"

\* C2: the unit of a produced quantity is the one given by the first of
\* the strategies adjacent, table, follower, unitless that succeeds for
\* the number; a later strategy never replaces it.
C2_FirstStrategyWins ==
    [][AppendsQuantity =>
          /\ Len(quantities') = Len(quantities) + 1
          /\ Last(quantities').value.unit =
                FirstSuccess(StrategyUnits(doc, matches, pseudo, number_idx,
                    EvalNumber(matches[number_idx]).value,
                    matched_unit_indices, config.tables))]_vars

\* a number linked by the table strategy although the unit just before it
\* is matched, touches it and has a follower
C2_Witness ==
    /\ pc = "loop"
    /\ linked.outcome = "quantity"
    /\ linked.by = "table"
    /\ \E k \in 1 .. Len(quantities) - 1 :
          /\ quantities[k].end = matches[linked.idx].start
          /\ matches[linked.idx - 1].end = quantities[k].end
          /\ quantities[k].value.unit = matches[linked.idx - 1].label
    /\ FollowerUnit(matches, linked.idx, matched_unit_indices)
          \notin {NoUnit, Last(quantities).value.unit}

\* the nearest unit candidate after match i, 0 when there is none
NearestUnitAfter(ms, i) ==
    LET js == {j \in i + 1 .. Len(ms) : ms[j].label \in UnitLabelHashes(ms)}
    IN  IF js = {} THEN 0 ELSE CHOOSE j \in js : \A k \in js : j <= k

InForwardWindow(ms, i, j) == ms[j].start <= ms[i].end + AFTER_SNIPPET_LIMIT

\* the codes of the pseudo sentence strictly between those of matches i and j
CodesBetween(ps, i, j) == SubSeq(ps.pseudo, ps.offsets[i] + 2, ps.offsets[j])

\* zero or more repetitions of a separator followed by a number
SeparatorNumberPairs(s) ==
    /\ Len(s) % 2 = 0
    /\ \A k \in 1 .. Len(s) : s[k] = IF k % 2 = 1 THEN "," ELSE "n"

\* an iteration of the loop on a number candidate whose value is parsed
LinksNumber ==
    /\ pc = "loop"
    /\ number_idx <= Len(matches)
    /\ matches[number_idx].label \in number_label_hashes
    /\ EvalNumber(matches[number_idx]).ok
    /\ linked'.idx = number_idx

\* C3: the adjacent strategy links a number exactly when the nearest unit
\* candidate after it lies in the forward window and the codes between
\* them are separator-number pairs only; it links to that nearest unit and
\* to no other.
C3_AdjacentExactly ==
    [][LinksNumber =>
          LET j == NearestUnitAfter(matches, number_idx)
          IN  /\ (linked'.by = "adjacent") <=>
                    /\ j # 0
                    /\ InForwardWindow(matches, number_idx, j)
                    /\ SeparatorNumberPairs(CodesBetween(pseudo, number_idx, j))
              /\ (linked'.by = "adjacent" /\ linked'.outcome = "quantity") =>
                    /\ linked'.unit_idx = j
                    /\ Last(quantities').value.unit = matches[j].label]_vars

\* the first number of an enumeration of three numbers linked to the unit
\* that follows the last one
C3_Witness ==
    /\ pc = "loop"
    /\ linked.by = "adjacent"
    /\ linked.unit_idx = linked.idx + 5
    /\ SeparatorNumberPairs(CodesBetween(pseudo, linked.idx, linked.unit_idx))

\* the nearest unitless trigger before match i, 0 when there is none
NearestTriggerBefore(ms, i) ==
    LET js == {j \in 1 .. i - 1 : ms[j].label \in unitless_label_hashes}
    IN  IF js = {} THEN 0 ELSE CHOOSE j \in js : \A k \in js : k <= j

\* C4: the limits configured on the pipe bound the windows: a quantity is
\* never linked to a unit that starts more than after_snippet_limit tokens
\* after the number's end, nor to a unit or through a unitless trigger that
\* ends more than before_snippet_limit tokens before the number's start.
C4_ConfiguredLimits ==
    linked.outcome = "quantity" =>
        LET number == matches[linked.idx]
        IN  /\ (linked.unit_idx > linked.idx) =>
                  matches[linked.unit_idx].start
                      <= number.end + config.after_snippet_limit
            /\ (linked.unit_idx # 0 /\ linked.unit_idx < linked.idx) =>
                  matches[linked.unit_idx].end
                      >= number.start - config.before_snippet_limit
            /\ (linked.by = "unitless") =>
                  matches[NearestTriggerBefore(matches, linked.idx)].end
                      >= number.start - config.before_snippet_limit

InBackwardWindow(ms, i, j) == ms[j].end >= ms[i].start - BEFORE_SNIPPET_LIMIT

\* min <= value < max, a missing bound being unbounded
Contains(scope, value) ==
    /\ scope.has_min => RLe(RInt(scope.min), value)
    /\ scope.has_max => RLt(value, RInt(scope.max))

\* the ranges declared by the trigger at match j that contain the value
ContainingRanges(ms, j, value) ==
    {k \in DOMAIN unitless_patterns[ms[j].label].ranges :
        Contains(unitless_patterns[ms[j].label].ranges[k], value)}

\* the trigger found for number i lets it through: it lies in the backward
\* window and only separator, colon and number codes stand between them
TriggerReaches(ms, ps, i, j) ==
    /\ j # 0
    /\ InBackwardWindow(ms, i, j)
    /\ \A k \in 1 .. Len(CodesBetween(ps, j, i)) :
          CodesBetween(ps, j, i)[k] \in {",", ":", "n"}

\* C5: a number left without unit by the first three strategies gets one
\* from the nearest unitless trigger before it only if separator, colon and
\* number codes alone stand between them; the unit is that of the first
\* declared range with min <= value < max, and without such a range (or
\* such a trigger) the number yields no quantity.
C5_UnitlessDispatch ==
    [][(/\ LinksNumber
        /\ FirstSuccess(SubSeq(
              StrategyUnits(doc, matches, pseudo, number_idx,
                  EvalNumber(matches[number_idx]).value,
                  matched_unit_indices, config.tables), 1, 3)) = NoUnit) =>
          LET j  == NearestTriggerBefore(matches, number_idx)
              v  == EvalNumber(matches[number_idx]).value
          IN  IF /\ TriggerReaches(matches, pseudo, number_idx, j)
                 /\ ContainingRanges(matches, j, v) # {}
              THEN /\ linked'.by = "unitless"
                   /\ linked'.outcome = "quantity"
                   /\ quantities' = Append(quantities, Last(quantities'))
                   /\ \E k \in ContainingRanges(matches, j, v) :
                         /\ \A l \in ContainingRanges(matches, j, v) : k <= l
                         /\ Last(quantities').value.unit =
                               unitless_patterns[matches[j].label].ranges[k].unit
              ELSE /\ linked'.outcome = "no_unit"
                   /\ quantities' = quantities]_vars

\* a number equal to the upper bound of the first range of its trigger,
\* given the unit of the second range
C5_Witness ==
    /\ pc = "loop"
    /\ linked.by = "unitless"
    /\ linked.outcome = "quantity"
    /\ LET j == NearestTriggerBefore(matches, linked.idx)
           v == EvalNumber(matches[linked.idx]).value
       IN  /\ ContainingRanges(matches, j, v) = {2}
           /\ ~RLt(v, RInt(unitless_patterns[matches[j].label].ranges[1].max))
           /\ Last(quantities).value.unit =
                 unitless_patterns[matches[j].label].ranges[2].unit

\* a document whose candidates are a number A, a unit U that declares a
\* follower, and a number B, one token each and without gap
IsNumberUnitNumber(toks) ==
    /\ Len(toks) = 3
    /\ toks[1] \in NumberLiteralKinds \cup NumberWordKinds
    /\ toks[3] \in NumberLiteralKinds \cup NumberWordKinds
    /\ PyEval(IF toks[1] \in NumberLiteralKinds THEN TextOf(toks[1]) ELSE LabelOf(toks[1])).ok
    /\ PyEval(IF toks[3] \in NumberLiteralKinds THEN TextOf(toks[3]) ELSE LabelOf(toks[3])).ok
    /\ LabelOf(toks[2]) \in DOMAIN unit_followers

ValueOfKind(kind) ==
    PyEval(IF kind \in NumberLiteralKinds THEN TextOf(kind) ELSE LabelOf(kind)).value

\* A + B * scale(F) / scale(U)
FollowerSum(a, b, u, f) ==
    RAdd(a, RDiv(RMul(b, units_config[f].scale), units_config[u].scale))

\* the single span over A, U and B with the value A + B*scale(F)/scale(U)
\* in unit U, B having been linked by the follower strategy
OneMergedSpan ==
    LET u == LabelOf(doc[2])
    IN  /\ linked.idx = 3
        /\ linked.by = "follower"
        /\ Len(spans) = 1
        /\ spans[1].start = 0
        /\ spans[1].end = 3
        /\ spans[1].value =
              SimpleQuantity(FollowerSum(ValueOfKind(doc[1]), ValueOfKind(doc[3]),
                                         u, unit_followers[u]), u)

\* the measure of unit u is requested by the configuration
Requested(u) ==
    \/ config.quantities = "all"
    \/ parse_unit(unit_registry, u).degrees \in DOMAIN measure_names(config.quantities)

\* some row of a table holds both token a and token b
SameTableRow(a, b) ==
    \E t \in DOMAIN TablesOf(doc, config.tables) :
        \E r \in DOMAIN TablesOf(doc, config.tables)[t].rows :
            LET row == TablesOf(doc, config.tables)[t].rows[r]
            IN  /\ \E c \in DOMAIN row : ~row[c].none /\ row[c].start = a
                /\ \E c \in DOMAIN row : ~row[c].none /\ row[c].start = b

\* C6 as stated: for candidates A, U, B with U right after A, B right
\* after U and U declaring the follower F, the call outputs one span over
\* A..B whose value is A + B*scale(F)/scale(U) in unit U.
C6_FollowerMerge ==
    (pc = "done" /\ IsNumberUnitNumber(doc)) => OneMergedSpan

\* C6, amended: the same when moreover the measure of U is requested and no
\* table row holds both U and B.
C6_FollowerMergeAmended ==
    (/\ pc = "done"
     /\ IsNumberUnitNumber(doc)
     /\ Requested(LabelOf(doc[2]))
     /\ ~SameTableRow(1, 2)) => OneMergedSpan

\* '1 m 78' in a table whose rows separate B from U: one span of 1.78 m
C6_Witness ==
    /\ pc = "done"
    /\ doc = <<"n1", "m", "n78">>
    /\ config.tables = "tworows"
    /\ OneMergedSpan
    /\ spans[1].value.value = Rat(178, 100)

\* the atoms of a unit key, cut at each piece that does not follow "per"
AtomsOf(u) ==
    LET cuts == {k \in DOMAIN u : k = 1 \/ u[k - 1] # "per"}
    IN  {SubSeq(u, k, CHOOSE e \in k .. Len(u) :
                        /\ e = Len(u) \/ (e + 1) \in cuts
                        /\ \A c \in cuts : ~(k < c /\ c <= e)) : k \in cuts}

\* the unit the strategies give the number of the current iteration
LinkedUnit ==
    FirstSuccess(StrategyUnits(doc, matches, pseudo, number_idx,
        EvalNumber(matches[number_idx]).value, matched_unit_indices,
        config.tables))

\* the number of the current iteration is to be dropped: no unit, a unit
\* with an atom absent from the registry, or a measure not requested
Dropped ==
    \/ LinkedUnit = NoUnit
    \/ \E a \in AtomsOf(LinkedUnit) : a \notin DOMAIN unit_registry
    \/ ~Requested(LinkedUnit)

\* the return of extract_quantities
Returns == pc = "loop" /\ number_idx > Len(matches) /\ pc' # "loop"

\* C7: every number candidate either produced exactly one quantity, or
\* produced none and is in the unmatched list that is returned; a number
\* without unit, with a unit that has an unregistered atom (no exception
\* leaves the function) or with a measure that is not requested is of the
\* second kind.
C7_OneQuantityOrUnmatched ==
    [][/\ LinksNumber =>
            IF Dropped
            THEN /\ quantities' = quantities
                 /\ matched_number_indices' = matched_number_indices
                 /\ raised' = None
            ELSE /\ Len(quantities') = Len(quantities) + 1
                 /\ SubSeq(quantities', 1, Len(quantities)) = quantities
                 /\ matched_number_indices' =
                       matched_number_indices \cup {number_idx}
       /\ Returns =>
            /\ Len(quantities) = Cardinality(matched_number_indices)
            /\ \A i \in DOMAIN matches :
                  matches[i].label \in number_label_hashes =>
                      (i \in matched_number_indices) # (i \in Range(unmatched'))]_vars

\* the function has returned and a number whose unit has an unregistered
\* atom (the table strategy gave it) is in the unmatched list
C7_Witness ==
    /\ pc \notin {"loop", "raised"}
    /\ linked.outcome = "unknown_unit"
    /\ linked.idx \in Range(unmatched)
    /\ quantities = <<>>

\* C8: extract_quantities never raises: a number candidate whose literal
\* or whose number-word label does not evaluate to a number is skipped,
\* yields no quantity and is in the unmatched list that is returned.
C8_NeverRaises ==
    /\ raised = None
    /\ (/\ linked.idx # 0
        /\ matches[linked.idx].label \in number_label_hashes
        /\ ~EvalNumber(matches[linked.idx]).ok) =>
            /\ linked.outcome = "skipped"
            /\ linked.idx \notin matched_number_indices
            /\ (pc \notin {"loop", "raised"}) => linked.idx \in Range(unmatched)

\* the units of two values have the same dimension signature
Homogeneous(a, b) ==
    parse_unit(unit_registry, a.unit).degrees = parse_unit(unit_registry, b.unit).degrees

\* scale(unit of b) / scale(unit of a), for units that are single atoms
ScaleRatio(a, b) == RDiv(units_config[b.unit].scale, units_config[a.unit].scale)

\* C9: merge_adjacent_quantities merges a span into the previous output
\* span exactly when previous.end = span.start, their units differ, their
\* dimensions are homogeneous and both values are scalars; the merged span
\* runs from previous.start to span.end, has the right span's label and the
\* value previous + span converted, in previous's unit.  Otherwise both are
\* output unchanged.
C9_AdjacentMerge ==
    [][(pc = "adjacent_loop" /\ todo # <<>>) =>
          LET previous == Last(merged)
              span     == Head(todo)
          IN  /\ raised' = None
              /\ todo' = Tail(todo)
              /\ IF /\ previous.end = span.start
                    /\ previous.value.unit # span.value.unit
                    /\ Homogeneous(previous.value, span.value)
                    /\ previous.value.kind = "simple"
                    /\ span.value.kind = "simple"
                 THEN merged' = Append(Front(merged),
                        [start |-> previous.start,
                         end   |-> span.end,
                         label |-> span.label,
                         value |-> SimpleQuantity(
                                      RAdd(previous.value.value,
                                           RMul(span.value.value,
                                                ScaleRatio(previous.value, span.value))),
                                      previous.value.unit)])
                 ELSE merged' = Append(merged, span)]_vars

\* '1 m' directly followed by '78 cm', merged into 1.78 m under the label
\* of the right span
C9_Witness ==
    /\ pc = "adjacent_loop"
    /\ merged # <<>>
    /\ Last(merged).end - Last(merged).start = 2
    /\ Last(merged).value = SimpleQuantity(Rat(178, 100), <<"m">>)
    /\ Last(merged).label = <<"cm">>

\* the bounds of a value converted by a ratio
Scaled(q, ratio) ==
    IF q.kind = "simple" THEN RMul(q.value, ratio)
    ELSE <<RMul(q.value[1], ratio), RMul(q.value[2], ratio)>>

\* the indices of the configured patterns that match between two spans
MatchingIndices(first, second) ==
    {k \in DOMAIN config.range_patterns :
        /\ /\ second.start = first.end + 1
           /\ NormOf(doc[first.end + 1]) = config.range_patterns[k][2]
        /\ \/ config.range_patterns[k][1] = None
           \/ /\ first.start > 0
              /\ NormOf(doc[first.start]) = config.range_patterns[k][1]}

RangesOff == ~config.extract_ranges \/ config.range_patterns = <<>>

\* C10: merge_quantities_in_ranges replaces two consecutive quantities by
\* one exactly when the text between them is the to-marker of a configured
\* pattern whose from-marker is None or is the token before the first, and
\* their units are homogeneous; the result has the interval of the first
\* value and the converted second value, in the first's unit, and starts
\* one token earlier iff the first matching pattern has a from-marker.
\* With extract_ranges disabled or without pattern the list is unchanged.
C10_RangeMerge ==
    [][/\ (pc = "ranges_loop" /\ todo # <<>>) =>
            LET first  == Last(merged)
                second == Head(todo)
                ks     == MatchingIndices(first, second)
                k1     == CHOOSE k \in ks : \A l \in ks : k <= l
            IN  /\ ~RangesOff
                /\ raised' = None
                /\ todo' = Tail(todo)
                /\ IF ks # {} /\ Homogeneous(first.value, second.value)
                   THEN /\ Len(merged') = Len(merged)
                        /\ Front(merged') = Front(merged)
                        /\ Last(merged').start =
                              IF config.range_patterns[k1][1] # None
                              THEN first.start - 1 ELSE first.start
                        /\ Last(merged').end = second.end
                        /\ Last(merged').value.kind = "range"
                        /\ Last(merged').value.unit = first.value.unit
                        /\ Last(merged').value.value =
                              <<first.value.value,
                                Scaled(second.value,
                                       ScaleRatio(first.value, second.value))>>
                   ELSE merged' = Append(merged, second)
       /\ (pc = "adjacent_loop" /\ todo = <<>> /\ RangesOff) =>
            (pc' = "finish" /\ extracted' = merged)
       /\ (pc = "finish" /\ RangesOff) => spans' = extracted]_vars

\* 'entre 1 m et 78 cm' with the pattern (entre, et) registered first: one
\* span from 'entre' on, with the interval (1, 0.78) m
C10_Witness ==
    /\ pc = "ranges_loop"
    /\ config.range_patterns = range_patterns
    /\ merged # <<>>
    /\ Last(merged).start = 0
    /\ Last(merged).end = 4
    /\ doc[1] = "word"
    /\ Last(merged).value =
          RangeQuantity(RInt(1), Rat(78, 100), <<"m">>, 1)

(***************************************************************************)
(* The shape of the intervals                                              *)
(***************************************************************************)
\* the bounds of an interval are two numbers: neither is itself a pair
ScalarBounds(q) == q.kind = "range" => q.depth = 1

\* the list returned by merge_quantities_in_ranges, when its loop ran
RangesOutput == pc = "finish" /\ config.extract_ranges /\ config.range_patterns # <<>>

\* C11: every interval in the output of merge_quantities_in_ranges has two
\* numeric scalar bounds: the result of a previous range merge is never
\* used as a bound of a new interval.
C11_IntervalOfTwoScalars ==
    RangesOutput => \A i \in DOMAIN extracted : ScalarBounds(extracted[i].value)

(***************************************************************************)
(* Idempotence of the merge passes                                         *)
(***************************************************************************)
\* C12: both merge passes are idempotent: merge_adjacent_quantities and
\* merge_quantities_in_ranges, run on their own output, return it unchanged
\* (same spans, labels and values).
C12_PassesIdempotent ==
    pc \in {"adjacent_twice", "ranges_twice"} => merged = extracted

\* the part of C12 about merge_adjacent_quantities alone
AdjacentIdempotent == pc = "adjacent_twice" => merged = extracted

(***************************************************************************)
(* The aligner                                                             *)
(***************************************************************************)
\* two spans share at least one token
Overlapping(a, b) == a.start < b.end /\ b.start < a.end

\* the spans of interest of the call
Existing == get_spans(doc, config.span_getter)

\* the extracted quantities that overlap at least one span of interest
OverlappingQuantities ==
    {extracted[k] : k \in {j \in DOMAIN extracted :
        \E t \in DOMAIN Existing : Overlapping(extracted[j], Existing[t])}}

NoDuplicate(s) == \A i, j \in DOMAIN s : i # j => s[i] # s[j]

IntersectDone ==
    pc = "done" /\ config.span_getter # None /\ config.merge_mode = "intersect"

\* C13: in intersect mode merge_with_existing returns exactly the extracted
\* quantities that overlap at least one span of interest, each exactly once
\* and with its span, label and value; no other quantity and no span of
\* interest is returned.
C13_IntersectKeepsOverlapping ==
    IntersectDone =>
        /\ NoDuplicate(spans)
        /\ Range(spans) = OverlappingQuantities

\* a quantity that overlaps two spans of interest is returned, once
C13_Witness ==
    /\ IntersectDone
    /\ \E i \in DOMAIN spans :
          \E t, u \in DOMAIN Existing :
              /\ t # u
              /\ Overlapping(spans[i], Existing[t])
              /\ Overlapping(spans[i], Existing[u])

\* the number of tokens two spans share
OverlapLength(a, b) ==
    LET lo == IF a.start > b.start THEN a.start ELSE b.start
        hi == IF a.end < b.end THEN a.end ELSE b.end
    IN  IF hi > lo THEN hi - lo ELSE 0

\* the extracted quantity with the largest overlap with `e`, the earliest
\* one among equals
BestOverlapping(e) ==
    CHOOSE q \in Range(extracted) :
        /\ Overlapping(q, e)
        /\ \A r \in Range(extracted) :
              Overlapping(r, e) =>
                 \/ OverlapLength(q, e) > OverlapLength(r, e)
                 \/ OverlapLength(q, e) = OverlapLength(r, e) /\ q.start <= r.start

\* the spans of interest that overlap at least one extracted quantity
HitSpans ==
    {t \in DOMAIN Existing :
        \E k \in DOMAIN extracted : Overlapping(extracted[k], Existing[t])}

AlignDone ==
    pc = "done" /\ config.span_getter # None /\ config.merge_mode = "align"

\* the first half of C14: the spans returned in align mode are the spans
\* of interest that overlap a quantity, each once
AlignReturnsHitSpans ==
    AlignDone =>
        /\ Len(spans) = Cardinality(HitSpans)
        /\ {<<spans[i].start, spans[i].end, spans[i].label>> : i \in DOMAIN spans} =
              {<<Existing[t].start, Existing[t].end, Existing[t].label>> : t \in HitSpans}

\* C14: in align mode merge_with_existing returns exactly the spans of
\* interest that overlap at least one extracted quantity, and each returned
\* span carries the value of its best-overlapping quantity, whatever the
\* labels of the span of interest and of the quantity.
C14_AlignCarriesValue ==
    /\ AlignReturnsHitSpans
    /\ AlignDone =>
          \A i \in DOMAIN spans : spans[i].value = BestOverlapping(spans[i]).value

\* what the code does give: the value of the best-overlapping quantity when
\* that quantity has the label of the span of interest
AlignCarriesValueUnderSameLabel ==
    AlignDone =>
        \A i \in DOMAIN spans :
            BestOverlapping(spans[i]).label = spans[i].label =>
                spans[i].value = BestOverlapping(spans[i]).value

(***************************************************************************)
(* The registry                                                            *)
(***************************************************************************)
\* the registry of the call
Registry == UnitRegistry(config.units_config)

\* parse_unit has returned for the key "per_" + U, U an entry of the registry
ParsedReciprocalOf(U) ==
    /\ call.op = "parse_unit"
    /\ result # <<>>
    /\ U \in DOMAIN Registry
    /\ call.unit = <<"per">> \o U

Negated(signature) == [d \in DOMAIN signature |-> -signature[d]]

\* the result is the negated signature and the reciprocal scale of U
IsReciprocalOf(r, U) ==
    /\ r.ok
    /\ r.value.degrees = Negated(parse_unit(Registry, U).degrees)
    /\ r.value.scale = RDiv(ROne, parse_unit(Registry, U).scale)

\* C15 as stated: for every unit atom U of the registry after construction,
\* the auto-generated reciprocal atoms included, parse_unit("per_" + U)
\* succeeds with the negated signature and the reciprocal scale of U.
C15_DimensionalClosure ==
    \A U \in DOMAIN Registry :
        ParsedReciprocalOf(U) => IsReciprocalOf(result[1], U)

\* C15, amended: the same for every unit atom U of the registry that is not
\* itself a reciprocal (its key does not start with "per_").
C15_DimensionalClosureAmended ==
    \A U \in DOMAIN Registry :
        (ParsedReciprocalOf(U) /\ ~StartsWithPer(U)) => IsReciprocalOf(result[1], U)

\* parse_unit("per_m") on the table whose key is the full-width m and that
\* has an entry "per_m" of its own: minus one in length, scale 1/100
C15_Witness ==
    /\ ParsedReciprocalOf(<<"m">>)
    /\ config.units_config = other_units_config
    /\ result[1].ok
    /\ result[1].value.scale = <<1, 100>>
    /\ result[1].value.degrees = [d \in {"length"} |-> -1]

\* The reference computation of parse_unit.  An atom of the key ends at
\* every piece that is not "per", and at the last piece.
AtomEnds(key) == {i \in DOMAIN key : key[i] # "per" \/ i = Len(key)}

AtomEndingAt(key, e) ==
    LET before == {i \in AtomEnds(key) : i < e}
        from   == IF before = {} THEN 1
                  ELSE 1 + CHOOSE i \in before : \A j \in before : j <= i
    IN  SubSeq(key, from, e)

\* the registry entry of the atom that ends at e
EntryAt(key, e) == Registry[NFKC(AtomEndingAt(key, e))]

AllAtomsKnown(key) ==
    \A e \in AtomEnds(key) : NFKC(AtomEndingAt(key, e)) \in DOMAIN Registry

RECURSIVE SumDegrees(_, _)
SumDegrees(key, ends) ==
    IF ends = {} THEN 0
    ELSE LET e == CHOOSE x \in ends : TRUE
         IN  EntryAt(key, e).degree + SumDegrees(key, ends \ {e})

RECURSIVE ProductScales(_, _)
ProductScales(key, ends) ==
    IF ends = {} THEN ROne
    ELSE LET e == CHOOSE x \in ends : TRUE
         IN  RMul(EntryAt(key, e).scale, ProductScales(key, ends \ {e}))

EndsOfDim(key, d) == {e \in AtomEnds(key) : EntryAt(key, e).dim = d}

ReferenceDegree(key, d) ==
    LET recorded == {EntryAt(key, e).degree : e \in EndsOfDim(key, d)}
    IN  IF Cardinality(recorded) = 1 THEN CHOOSE x \in recorded : TRUE
        ELSE SumDegrees(key, EndsOfDim(key, d))

ReferenceSignature(key) ==
    LET dims == {EntryAt(key, e).dim : e \in AtomEnds(key)}
        kept == {d \in dims : SumDegrees(key, EndsOfDim(key, d)) # 0}
    IN  [d \in kept |-> ReferenceDegree(key, d)]

\* the two keys list the same atoms, each as many times
SameAtoms(k1, k2) ==
    LET Count(k, a) == Cardinality({e \in AtomEnds(k) : AtomEndingAt(k, e) = a})
        Atoms(k)    == {AtomEndingAt(k, e) : e \in AtomEnds(k)}
    IN  /\ Atoms(k1) = Atoms(k2)
        /\ \A a \in Atoms(k1) : Count(k1, a) = Count(k2, a)

ParsedKey == call.op = "parse_unit" /\ result # <<>>

\* C16: parse_unit(key) is the reference computation: the atoms are the
\* pieces between the underscores not preceded by "per"; the scale is the
\* product of their scales; a dimension keeps its single degree when all
\* the degrees recorded for it are equal and their sum otherwise, and is
\* dropped when the sum is zero; keys with the same atoms in another order
\* give the same result; an atom absent from the registry is a lookup error.
C16_ParseUnitReference ==
    ParsedKey =>
        /\ IF AllAtomsKnown(call.unit)
           THEN /\ result[1].ok
                /\ result[1].value.degrees = ReferenceSignature(call.unit)
                /\ result[1].value.scale =
                      ProductScales(call.unit, AtomEnds(call.unit))
           ELSE result[1] = [ok |-> FALSE, exc |-> "KeyError"]
        /\ \A k \in [DOMAIN call.unit -> Range(call.unit)] :
              SameAtoms(k, call.unit) => TryParseUnit(Registry, k) = result[1]

\* "m_m": the two degrees recorded for the length are equal, the signature
\* keeps the degree 1, and the scale is 100 * 100
C16_Witness ==
    /\ ParsedKey
    /\ call.unit = <<"m", "m">>
    /\ config.units_config = units_config
    /\ result[1].ok
    /\ result[1].value.degrees = [d \in {"length"} |-> 1]
    /\ result[1].value.scale = <<10000, 1>>

(***************************************************************************)
(* Conversions and comparisons                                             *)
(***************************************************************************)
SignatureOf(unit) == parse_unit(unit_registry, unit).degrees
ScaleOfUnit(unit) == parse_unit(unit_registry, unit).scale

\* a scalar, or an interval of two numbers
TwoNumbersAtMost(q) == DepthOf(q) <= 1

\* the call self.convert_to(other_unit) is about to return, both units
\* being known to the registry
ConvertReturns ==
    /\ call.op = "convert_to"
    /\ result = <<>>
    /\ result' # <<>>
    /\ TwoNumbersAtMost(call.self)
    /\ UnitKnown(unit_registry, call.self.unit)
    /\ UnitKnown(unit_registry, call.other_unit)

\* C17: convert_to returns the value (both bounds of an interval) times
\* scale(source unit) / scale(target unit) exactly when the two units have
\* the same dimension signature; otherwise it raises the non-homogeneous
\* units error; the value and the unit of the quantity are left as they are.
C17_ConvertTo ==
    [][ConvertReturns =>
         /\ call' = call
         /\ IF SignatureOf(call.self.unit) = SignatureOf(call.other_unit)
            THEN /\ result'[1].ok
                 /\ result'[1].value =
                       Scaled(call.self, RDiv(ScaleOfUnit(call.self.unit),
                                              ScaleOfUnit(call.other_unit)))
            ELSE result'[1] = [ok |-> FALSE, exc |-> "AttributeError"]]_vars

\* the interval (1, 3) m converted to cm: (100, 300)
C17_Witness ==
    /\ call.op = "convert_to"
    /\ call.self.kind = "range"
    /\ call.self.depth = 1
    /\ call.self.value = <<RInt(1), RInt(3)>>
    /\ call.self.unit = <<"m">>
    /\ call.other_unit = <<"cm">>
    /\ Len(result) = 1
    /\ result[1].ok
    /\ result[1].value = <<RInt(100), RInt(300)>>

\* a scalar s was converted to a unit of the same signature and the
\* result converted back to the unit of s
ScalarRoundTrip ==
    /\ call.op = "convert_to"
    /\ call.self.kind = "simple"
    /\ Len(result) = 2

\* C18: conversion round-trip: for a scalar s and a unit u2 of the same
\* dimension signature, converting s to u2 and the result back to the unit
\* of s gives the value of s.
C18_RoundTrip ==
    /\ ScalarRoundTrip => (result[2].ok /\ result[2].value = call.self.value)
    /\ (/\ call.op = "convert_to"
        /\ call.self.kind = "simple"
        /\ Len(result) = 1
        /\ UnitKnown(unit_registry, call.self.unit)
        /\ UnitKnown(unit_registry, call.other_unit)
        /\ SignatureOf(call.self.unit) = SignatureOf(call.other_unit))
          => result[1].ok

\* 3 cm converted to m_cm (1/100 of it) and back: 3
C18_Witness ==
    /\ ScalarRoundTrip
    /\ call.self.value = RInt(3)
    /\ call.self.unit = <<"cm">>
    /\ call.other_unit = <<"m", "cm">>
    /\ result[1].value = <<3, 100>>
    /\ result[2].value = RInt(3)

\* the bounds of a quantity, as a set, and the bounds of x in the unit of y
BoundsOf(q) == IF q.kind = "simple" THEN {q.value} ELSE {q.value[1], q.value[2]}

BoundsIn(x, unit) ==
    {RMul(v, RDiv(ScaleOfUnit(x.unit), ScaleOfUnit(unit))) : v \in BoundsOf(x)}

Largest(vs) == CHOOSE v \in vs : \A w \in vs : RLe(w, v)
Smallest(vs) == CHOOSE v \in vs : \A w \in vs : RLe(v, w)

\* a comparison of two quantities of homogeneous units has returned
Compared(op) ==
    /\ call.op = op
    /\ result # <<>>
    /\ TwoNumbersAtMost(call.self)
    /\ TwoNumbersAtMost(call.other)
    /\ UnitKnown(unit_registry, call.self.unit)
    /\ UnitKnown(unit_registry, call.other.unit)
    /\ SignatureOf(call.self.unit) = SignatureOf(call.other.unit)

\* x < y iff the largest bound of x, in the unit of y, is less than the
\* smallest bound of y
LtOfBounds ==
    Compared("lt") =>
        /\ result[1].ok
        /\ result[1].value <=>
              RLt(Largest(BoundsIn(call.self, call.other.unit)),
                  Smallest(BoundsOf(call.other)))

\* x <= y iff the largest bound of x, in the unit of y, is at most the
\* largest bound of y
LeOfBounds ==
    Compared("le") =>
        /\ result[1].ok
        /\ result[1].value <=>
              RLe(Largest(BoundsIn(call.self, call.other.unit)),
                  Largest(BoundsOf(call.other)))

\* the same for an interval on the left only
LeOfBoundsForIntervals == (call.op = "le" /\ call.self.kind = "range") => LeOfBounds

\* C19: the ordering comparisons use the smallest bound of the right side
\* for "<" and its largest bound for "<=", whether the left side is a
\* scalar or an interval.
C19_OrderingBounds == LtOfBounds /\ LeOfBounds

(***************************************************************************)
(* Configuration errors                                                    *)
(***************************************************************************)
\* two keys of the unit table are the same identifier once normalised
DuplicateUnit(items) ==
    \E i, j \in DOMAIN items : i # j /\ NFKC(items[i][1]) = NFKC(items[j][1])

\* a unit that names itself as its follower
SelfReferentialUnit(items) ==
    \E i \in DOMAIN items : NFKC(items[i][2].followed_by) = NFKC(items[i][1])

\* a range pattern that is not a pair
InvalidRangePattern(patterns) == \E i \in DOMAIN patterns : Len(patterns[i]) # 2

ConfigurationError ==
    \/ DuplicateUnit(call.units_config)
    \/ SelfReferentialUnit(call.units_config)
    \/ InvalidRangePattern(call.range_patterns)

\* C20: configuration errors are fatal at construction: with a duplicate
\* unit definition, a self-referential unit definition or an invalid range
\* pattern tuple, no matcher is built.
C20_ConfigErrorsFatal ==
    (call.op = "QuantitiesMatcher" /\ ConfigurationError) => ~config.built

\* train has returned
TrainReturned == call.op = "train" /\ pc = "returned"

\* C21: when train returns, model-last holds the pipeline as it is after
\* the last optimizer step, whatever max_steps and validation_interval: no
\* optimizer step comes after the last save.
C21_ModelLastIsLast == TrainReturned => model_last = <<nlp>>

\* the same, when max_steps is a multiple of validation_interval
ModelLastIsLastOnMultiples ==
    (TrainReturned /\ call.max_steps % call.validation_interval = 0)
        => model_last = <<nlp>>

\* the number of words of a batch of items of the iterable
WordsOf(b) == SumSeq([k \in 1 .. Len(b) |-> call.iterable[b[k]]])

\* the positions 1 .. n, in order
Positions(n) == [k \in 1 .. n |-> k]

\* every item taken so far is in one yielded batch or in the pending one,
\* in the order of the input
InInputOrder == Flatten(result) \o batch = Positions(consumed)

\* C22: every batch yielded by batchify_by_words is non-empty, and holds at
\* most batch_size words or one item; the items come in the order of the
\* input, none twice; at the end every item is in exactly one batch, but
\* for the items of the pending batch when drop_last is set.
C22_BatchesByWords ==
    call.op = "batchify_by_words" =>
        /\ \A k \in 1 .. Len(result) :
              /\ Len(result[k]) > 0
              /\ WordsOf(result[k]) <= call.batch_size \/ Len(result[k]) = 1
        /\ pc = "batchify" => InInputOrder
        /\ pc = "exhausted" =>
              /\ consumed = Len(call.iterable)
              /\ IF call.drop_last
                 THEN InInputOrder
                 ELSE Flatten(result) = Positions(Len(call.iterable))

\* an item larger than batch_size yielded alone after a batch of two items
C22_Witness ==
    /\ call.op = "batchify_by_words"
    /\ pc = "exhausted"
    /\ ~call.drop_last
    /\ Len(result) = 2
    /\ Len(result[1]) = 2
    /\ WordsOf(result[1]) = call.batch_size
    /\ Len(result[2]) = 1
    /\ WordsOf(result[2]) > call.batch_size

\* the rows of the tables of the document, each as the set of the tokens
\* of its cells
TableRowTokens ==
    {{row[c].start : c \in {d \in DOMAIN row : ~row[d].none}} :
        row \in UNION {Range(TablesOf(doc, config.tables)[t].rows) :
                          t \in DOMAIN TablesOf(doc, config.tables)}}

\* the matches i and j stand in one row of a table
InSameRow(i, j) ==
    \E row \in TableRowTokens :
        /\ \A k \in matches[i].start .. matches[i].end - 1 : k \in row
        /\ \A k \in matches[j].start .. matches[j].end - 1 : k \in row

IsUnitCandidate(j) == matches[j].label \in UnitLabelHashes(matches)

\* the nearest unit candidate before match i, 0 when there is none
NearestUnitBefore(ms, i) ==
    LET js == {j \in 1 .. i - 1 : ms[j].label \in UnitLabelHashes(ms)}
    IN  IF js = {} THEN 0 ELSE CHOOSE j \in js : \A k \in js : k <= j

\* the unit that the forward search finds for match i, 0 when none
ForwardUnit(i) ==
    LET j == NearestUnitAfter(matches, i)
    IN  IF j # 0 /\ InForwardWindow(matches, i, j) THEN j ELSE 0

\* the unit that the backward search finds for match i, 0 when none
BackwardUnit(i) ==
    LET j == NearestUnitBefore(matches, i)
    IN  IF j # 0 /\ matches[j].end >= matches[i].start - BEFORE_SNIPPET_LIMIT
        THEN j ELSE 0

\* the adjacent strategy gives a unit to match i
AdjacentGives(i) ==
    /\ ForwardUnit(i) # 0
    /\ SeparatorNumberPairs(CodesBetween(pseudo, i, ForwardUnit(i)))

\* the unit of the row of match i that the searches find: the one of the
\* forward search if it is in the row, otherwise the one of the backward
\* search if it is in the row, otherwise 0
RowUnit(i) ==
    IF ForwardUnit(i) # 0 /\ InSameRow(i, ForwardUnit(i)) THEN ForwardUnit(i)
    ELSE IF BackwardUnit(i) # 0 /\ InSameRow(i, BackwardUnit(i)) THEN BackwardUnit(i)
    ELSE 0

\* the table strategy never links a number to a unit outside its row
TableLinkInRow ==
    linked'.by = "table" =>
        /\ IsUnitCandidate(linked'.unit_idx)
        /\ InSameRow(number_idx, linked'.unit_idx)

\* C23: when the adjacent strategy gave no unit and the row of the number
\* holds a unit candidate, the table strategy links the number to a unit
\* candidate of that row; and it never links a number to a unit candidate
\* outside the row of the number.
C23_TableRowUnit ==
    [][LinksNumber =>
          /\ (/\ ~AdjacentGives(number_idx)
              /\ \E j \in DOMAIN matches :
                    IsUnitCandidate(j) /\ InSameRow(number_idx, j))
                => /\ linked'.by = "table"
                   /\ linked'.unit_idx = RowUnit(number_idx)
          /\ TableLinkInRow]_vars

\* C23, amended: the same when the unit candidate of the row is the one
\* that the forward search or the backward search finds, each within its
\* window; when neither finds a unit in the row the table strategy gives
\* nothing.
C23_TableRowUnitAmended ==
    [][LinksNumber =>
          /\ (~AdjacentGives(number_idx) /\ RowUnit(number_idx) # 0)
                => /\ linked'.by = "table"
                   /\ linked'.unit_idx = RowUnit(number_idx)
          /\ (AdjacentGives(number_idx) \/ RowUnit(number_idx) = 0)
                => linked'.by # "table"
          /\ TableLinkInRow]_vars

\* a number linked by the table strategy to the unit before it, in a
\* table whose next row starts after the number
C23_Witness ==
    /\ config.tables = "tworows"
    /\ linked.by = "table"
    /\ linked.unit_idx = linked.idx - 1
    /\ linked.idx < Len(matches)
    /\ ~InSameRow(linked.idx, linked.idx + 1)

\* the unit key parses: each of its atoms is an entry of the registry
Parses(u) == \A a \in AtomsOf(u) : a \in DOMAIN unit_registry

\* the configured measures registered for the dimension signature of u
MeasuresOf(u) ==
    {n \in RequestedMeasures(config.quantities) :
        parse_unit(unit_registry, common_quantities[n].unit).degrees
            = parse_unit(unit_registry, u).degrees}

CaptureAll == config.quantities = "all"

\* a quantity span of extract_quantities is well formed
LabelledByMeasure(q) ==
    /\ q.value.kind = "simple"
    /\ Parses(q.value.unit)
    /\ IF CaptureAll
       THEN q.label = q.value.unit
       ELSE q.label \in MeasuresOf(q.value.unit)

\* C24: every quantity span of extract_quantities carries a scalar whose
\* unit parses in the registry; outside the capture-all mode its label is
\* the measure registered for the dimension signature of the unit, and a
\* number whose unit has a signature registered for no configured measure
\* gives no quantity; in the capture-all mode no number is dropped for its
\* dimension and the label is the unit string.
C24_LabelByDimension ==
    [][/\ \A k \in DOMAIN quantities' : LabelledByMeasure(quantities'[k])
       /\ (LinksNumber /\ LinkedUnit # NoUnit /\ Parses(LinkedUnit)) =>
             IF CaptureAll \/ MeasuresOf(LinkedUnit) # {}
             THEN /\ quantities' # quantities
                  /\ Last(quantities').value.unit = LinkedUnit
             ELSE quantities' = quantities]_vars

\* with the size measure alone: '1 m 78' gives two quantities labelled
\* size, the second in cm
C24_Witness ==
    /\ ~CaptureAll
    /\ Len(quantities) = 2
    /\ quantities[2].label = <<"size">>
    /\ quantities[2].value.unit = <<"cm">>
    /\ linked.outcome = "quantity"

\* span x is the union of the number n and of the unit candidate u, which
\* only blank text separates from the number
NumberWithUnit(x, n, u) ==
    \/ /\ n.end <= u.start
       /\ BlankText(doc, n.end, u.start)
       /\ x.start = n.start /\ x.end = u.end
    \/ /\ u.end <= n.start
       /\ BlankText(doc, u.end, n.start)
       /\ x.start = u.start /\ x.end = n.end

\* the span of a quantity made from the number n
SpanOfNumber(x, n) ==
    /\ \/ x.start = n.start /\ x.end = n.end
       \/ \E j \in DOMAIN matches :
             IsUnitCandidate(j) /\ NumberWithUnit(x, n, matches[j])
    /\ x.start < x.end
    /\ x.start <= n.start
    /\ n.end <= x.end

\* a quantity is appended for the number of the current iteration
AppendsForNumber == LinksNumber /\ quantities' # quantities

\* C25: the span of a quantity is the span of its number, or the union of
\* the number and of its unit when only blank text separates them, on
\* either side; it is never empty and holds every token of the number,
\* also when the unit ends where the number starts.
C25_SpanHoldsNumber ==
    [][AppendsForNumber =>
          SpanOfNumber(Last(quantities'), matches[number_idx])]_vars

\* the same for the quantities whose unit does not end where the number
\* starts
SpanHoldsNumberUnlessUnitJustBefore ==
    [][(/\ AppendsForNumber
        /\ ~(/\ linked'.unit_idx # 0
             /\ matches[linked'.unit_idx].end = matches[number_idx].start)) =>
          SpanOfNumber(Last(quantities'), matches[number_idx])]_vars

\* the strategies that take the unit of the number from a unit candidate
FromCandidate == {"adjacent", "table"}

\* the number of the current iteration is resolved with the unit of a
\* unit candidate
TakesUnitFromCandidate ==
    /\ linked'.outcome = "quantity"
    /\ linked'.by \in FromCandidate

\* every unit candidate that supplied the unit of a resolved number is
\* marked as matched
SupplierMarked ==
    [][(LinksNumber /\ TakesUnitFromCandidate) =>
          /\ IsUnitCandidate(linked'.unit_idx)
          /\ matches[linked'.unit_idx].label = Last(quantities').value.unit
          /\ linked'.unit_idx \in matched_unit_indices']_vars

\* C26: a unit candidate is in the matched set only if a resolved number
\* took its unit from it: an iteration marks the candidate that supplied
\* the unit and no other, and marks none when the number is resolved by
\* the follower or by the unitless-trigger strategy or is not resolved.
C26_MatchedOnlyIfConsumed ==
    [][LinksNumber =>
          matched_unit_indices' =
              IF TakesUnitFromCandidate
              THEN matched_unit_indices \cup {linked'.unit_idx}
              ELSE matched_unit_indices]_vars

\* the tokens of the document that are unit atoms
Atoms == {i \in DOMAIN doc : doc[i] \in UnitPartKinds}

\* the atom before atom j, 0 when there is none
PrevAtom(j) ==
    IF {i \in Atoms : i < j} = {} THEN 0
    ELSE CHOOSE i \in Atoms : i < j /\ \A k \in Atoms : k < j => k <= i

\* a run starts at atom j: it is the first atom, or something that is not
\* whitespace separates it from the atom before, or the composition is
\* disabled and the atom before is not "per"
RunStartsAt(j) ==
    \/ PrevAtom(j) = 0
    \/ \E k \in PrevAtom(j) + 1 .. j - 1 : ~IsBlankKind(doc[k])
    \/ ~call.compose_units /\ doc[PrevAtom(j)] # "per"

\* the first atom of the run of atom j
RunOfAtom(j) ==
    CHOOSE s \in Atoms :
        /\ s <= j
        /\ RunStartsAt(s)
        /\ \A k \in Atoms : (s < k /\ k <= j) => ~RunStartsAt(k)

\* the last atom of the run that starts at s that is not "per", 0 if none
LastNonPer(s) ==
    LET ns == {j \in Atoms : RunOfAtom(j) = s /\ doc[j] # "per"}
    IN  IF ns = {} THEN 0 ELSE CHOOSE j \in ns : \A k \in ns : k <= j

\* the unit of the run that starts at s
UnitOfRunAt(s) ==
    [start |-> s - 1,
     end   |-> LastNonPer(s),
     label |-> SelectSeq(SubSeq(doc, s, LastNonPer(s)),
                         LAMBDA k : k \in UnitPartKinds)]

ExpectedUnits ==
    {UnitOfRunAt(s) : s \in {a \in Atoms : RunStartsAt(a) /\ LastNonPer(a) # 0}}

ExtractUnitsReturned == call.op = "extract_units" /\ Len(result) = 1

\* C27: extract_units emits one unit per maximal run of unit atoms that
\* only whitespace separates (without composition a run also ends after
\* each atom that is not "per"); the label joins the labels of the run up
\* to its last atom that is not "per" and the span runs from the first
\* atom to that one.  No label ends with "per", a run of "per" alone gives
\* nothing, the last run is flushed, and every atom that is not "per" is
\* in exactly one unit.
C27_ExtractUnits ==
    ExtractUnitsReturned =>
        LET units == result[1]
        IN  /\ Range(units) = ExpectedUnits
            /\ Len(units) = Cardinality(ExpectedUnits)
            /\ \A k \in 1 .. Len(units) - 1 : units[k].end <= units[k + 1].start
            /\ \A k \in DOMAIN units : Last(units[k].label) # "per"
            /\ \A j \in Atoms : doc[j] # "per" =>
                  Cardinality({k \in DOMAIN units :
                      units[k].start < j /\ j <= units[k].end}) = 1
            /\ ~call.compose_units =>
                  \A k \in DOMAIN units :
                      Cardinality({i \in DOMAIN units[k].label :
                                      units[k].label[i] # "per"}) = 1

\* 'm per kg per': one unit m_per_kg over the first three tokens
C27_Witness ==
    /\ ExtractUnitsReturned
    /\ call.compose_units
    /\ doc = <<"m", "per", "kg", "per">>
    /\ result[1] = <<[start |-> 0, end |-> 3, label |-> <<"m", "per", "kg">>]>>

PseudoReturned == call.op = "make_pseudo_sentence" /\ pc = "returned"

\* the text of the tokens a .. b - 1 holds something else than whitespace
NonBlankGap(a, b) == \E k \in a .. b - 1 : ~IsBlankKind(doc[k + 1])

\* the end of the candidate before candidate i, or the start of the snippet
EndBefore(i) == IF i = 1 THEN call.snippet[1] ELSE matches[i - 1].end

\* the number of codes written before the turn of candidate i
CodesBefore(i) == IF i = 1 THEN 0 ELSE pseudo.offsets[i - 1] + 1

\* one offset per candidate, strictly increasing, each the place of the
\* code of its candidate; a "w" stands just before the code of a candidate
\* exactly when the text since the candidate before is not blank
OffsetsAndGaps ==
    /\ Len(pseudo.offsets) = Len(matches)
    /\ \A i \in DOMAIN matches :
          /\ pseudo.pseudo[pseudo.offsets[i] + 1] = PseudoCode(matches, matches[i])
          /\ IF NonBlankGap(EndBefore(i), matches[i].start)
             THEN /\ pseudo.offsets[i] = CodesBefore(i) + 1
                  /\ pseudo.pseudo[pseudo.offsets[i]] = "w"
             ELSE pseudo.offsets[i] = CodesBefore(i)

\* a "w" follows the last code exactly when the text between the last
\* candidate and the end of the snippet is not blank
TrailingGap ==
    Len(pseudo.pseudo) =
        CodesBefore(Len(matches) + 1)
            + IF NonBlankGap(EndBefore(Len(matches) + 1), call.snippet[2])
              THEN 1 ELSE 0

PseudoOffsetsAndGaps == PseudoReturned => OffsetsAndGaps

\* C28: make_pseudo_sentence returns one offset per candidate, strictly
\* increasing, with the code of candidate i at offsets[i]; a "w" is put
\* just before the code of a candidate iff the text since the previous
\* candidate (or the start of the snippet) is not blank, and the pseudo
\* sentence holds a gap "w" only for a gap that is not blank, the gap
\* between the last candidate and the end of the snippet included.
C28_PseudoSentence == PseudoReturned => (OffsetsAndGaps /\ TrailingGap)

\* a call that has returned gave what a call alone gives for its key
ReturnsAsSequential ==
    \A w \in DOMAIN workers :
        workers[w].returned # NoResult =>
            workers[w].returned = TryParseUnit(unit_registry, workers[w].unit)

\* the cache holds one entry per key at most, none for a key that fails
CacheWellFormed ==
    /\ \A i, j \in DOMAIN cache : cache[i].key = cache[j].key => i = j
    /\ \A i \in DOMAIN cache : UnitKnown(unit_registry, cache[i].key)
    /\ Len(cache) <= maxsize

\* the keys that were stored so far
StoredKeys == {k \in DOMAIN writes : writes[k] > 0}

\* the calls return as sequential calls do, and an entry is written once
\* at most as long as no more than maxsize keys were stored
CacheInsertIfAbsent ==
    /\ ReturnsAsSequential
    /\ CacheWellFormed
    /\ Cardinality(StoredKeys) <= maxsize => \A k \in DOMAIN writes : writes[k] <= 1

\* C29: under any interleaving of the workers that call parse_unit on one
\* registry, every call returns what a sequential call returns for its
\* key, and the cache entry of a key is written at most once over the
\* life of the registry, however many distinct keys are looked up; a
\* lookup that fails leaves the cache unchanged.
C29_CacheWrittenOnce ==
    /\ ReturnsAsSequential
    /\ CacheWellFormed
    /\ \A k \in DOMAIN writes : writes[k] <= 1

\* the matcher has been built from a unit table without two keys of the
\* same normal form
Constructed ==
    /\ call.op = "QuantitiesMatcher"
    /\ config.built
    /\ ~DuplicateUnit(call.units_config)

\* the entry of the registry under `key` has the dimension, degree and
\* scale of `entry`
SameEntry(registry, key, entry) ==
    /\ key \in DOMAIN registry
    /\ registry[key].dim = entry.dim
    /\ registry[key].degree = entry.degree
    /\ registry[key].scale = entry.scale

\* the reciprocal of a configured entry: negated degree, inverse scale
ReciprocalEntry(entry) ==
    [dim |-> entry.dim, degree |-> -entry.degree, scale |-> RDiv(ROne, entry.scale)]

ConfiguredKeys(items) == {NFKC(items[i][1]) : i \in DOMAIN items}

\* every configured entry is in the registry as it was configured
ConfiguredEntriesKept ==
    \A i \in DOMAIN call.units_config :
        SameEntry(config.unit_registry, NFKC(call.units_config[i][1]),
                  call.units_config[i][2])

\* the keys of the registry beyond the configured ones are the reciprocals
\* of the configured units that have no configured reciprocal, and none of
\* them is the reciprocal of a reciprocal
OnlyMissingReciprocalsGenerated ==
    /\ \A k \in DOMAIN config.unit_registry \ ConfiguredKeys(call.units_config) :
            /\ StartsWithPer(k)
            /\ Tail(k) \in ConfiguredKeys(call.units_config)
            /\ ~StartsWithPer(Tail(k))
    /\ \A i \in DOMAIN call.units_config :
            LET U == NFKC(call.units_config[i][1])
            IN  (/\ ~StartsWithPer(U)
                 /\ <<"per">> \o U \notin ConfiguredKeys(call.units_config))
                => SameEntry(config.unit_registry, <<"per">> \o U,
                             ReciprocalEntry(call.units_config[i][2]))

NonReciprocalEntriesKept ==
    Constructed =>
        /\ \A i \in DOMAIN call.units_config :
              LET k == NFKC(call.units_config[i][1])
              IN  (~StartsWithPer(k) \/ Tail(k) \notin ConfiguredKeys(call.units_config))
                  => SameEntry(config.unit_registry, k, call.units_config[i][2])
        /\ OnlyMissingReciprocalsGenerated

====
